---- MODULE Spec2Model ----
(***************************************************************************)
(* Sample-QC decision engine of the joint-calling pipeline.                *)
(*                                                                         *)
(* Tables are functions from the sample ids that have a row to that row.   *)
(* A Hail value that may be missing is a record [def, v]: def says whether *)
(* the value is defined, v is the value (a filler when def is FALSE).      *)
(* Real numbers are scaled to integers: r_het_hom_var is in tenths, all    *)
(* other metrics are in their own unit.                                    *)
(***************************************************************************)
EXTENDS Integers, FiniteSets, Sequences, TLC

VARIABLES
    pc,                        \* position of the driver
    cov_threshold,             \* compute_hard_filters: minimal chr20 coverage
    sex_ht,                    \* rows: sex_karyotype, chr20_mean_dp
    sample_qc_ht,              \* rows: bi_allelic_sample_qc {n_snp, n_singleton, r_het_hom_var}
    sample_df,                 \* rows: what each Picard stats file of the sample holds
    store,                     \* work bucket: checkpoint path -> table, or NoFile
    hard_filtered_samples_ht,  \* table returned by compute_hard_filters
    relatedness_ht,            \* rows keyed by a pair (i, j): kin
    kin_threshold,             \* flag_related_samples: kinship cutoff
    regressed_metrics_ht,      \* optional table, rows: qc_metrics_filters
    rank_ht,                   \* rows: filtered, rank
    filtered_samples_rel,      \* filtered samples of a related pair
    mis_g,                     \* maximal_independent_set: vertex -> its neighbours
    mis_heap,                  \* maximal_independent_set: vertices not yet removed
    call,                      \* arguments of the flag_related_samples call under way
    samples_to_drop_ht,        \* table returned by flag_related_samples
    metadata_ht,               \* rows: population ("" when not known)
    max_mislabeled_training_samples,
    pop_pca_scores_ht,         \* rows: training_pop (scores are left to the classifier)
    pop_ht,                    \* rows: training_pop, pop
    n_mislabeled_samples,      \* assign_pops: result of the latest round
    rounds,                    \* assign_pops: what each round logged
    rf_fits,                   \* the classifier: training labels -> fit it gives
    pop_overwrite,             \* assign_pops: its overwrite argument
    residuals_ht,              \* rows: <metric>_residual
    stratified_metrics_ht,     \* rows: fail_<metric>, qc_metrics_filters
    qc_metrics_stats,          \* global field of the table of the outlier detector
    pca_related_samples_to_drop_ht,    \* result of the first flag_related_samples
    final_related_samples_to_drop_ht,  \* result of the second flag_related_samples
    meta_ht,                   \* table returned by _generate_metadata
    main,                      \* main of sample_qc.py: its position, its overwrite
                               \* option, the stages it has completed
    batch                      \* main of batch_workflow.py: the jobs of the batch
                               \* and the jobs its variables name

hfvars == <<cov_threshold, sample_qc_ht, sample_df>>
relvars == <<relatedness_ht, kin_threshold, regressed_metrics_ht, rank_ht,
             filtered_samples_rel, mis_g, mis_heap, call, samples_to_drop_ht>>

popvars == <<metadata_ht, max_mislabeled_training_samples, pop_pca_scores_ht,
             pop_ht, n_mislabeled_samples, rounds, rf_fits, pop_overwrite>>
stratvars == <<residuals_ht, stratified_metrics_ht, qc_metrics_stats>>
metavars == <<pca_related_samples_to_drop_ht, final_related_samples_to_drop_ht,
              meta_ht>>

vars == <<pc, sex_ht, store, hard_filtered_samples_ht, hfvars, relvars,
          popvars, stratvars, metavars, main, batch>>

----------------------------------------------------------------------------
(* Hail expression language: missing values and three-valued logic.        *)

NAint == [def |-> FALSE, v |-> 0]
NAstr == [def |-> FALSE, v |-> ""]
NAbool == [def |-> FALSE, v |-> FALSE]
NAset == [def |-> FALSE, v |-> {}]
Some(x) == [def |-> TRUE, v |-> x]

\* comparison operators are missing when an operand is missing
HailLt(a, b) == IF a.def /\ b.def THEN Some(a.v < b.v) ELSE NAbool
HailGt(a, b) == IF a.def /\ b.def THEN Some(a.v > b.v) ELSE NAbool
HailEq(a, b) == IF a.def /\ b.def THEN Some(a.v = b.v) ELSE NAbool

\* `|` and `&` are Kleene: a defined TRUE (FALSE) operand decides `|` (`&`)
HailOr(a, b) ==
    IF (a.def /\ a.v) \/ (b.def /\ b.v) THEN Some(TRUE)
    ELSE IF a.def /\ b.def THEN Some(FALSE)
    ELSE NAbool

HailAnd(a, b) ==
    IF (a.def /\ ~a.v) \/ (b.def /\ ~b.v) THEN Some(FALSE)
    ELSE IF a.def /\ b.def THEN Some(TRUE)
    ELSE NAbool

HailNot(a) == IF a.def THEN Some(~a.v) ELSE NAbool

HailIsDefined(a) == Some(a.def)

\* hl.set(S).contains(e) for a set literal S without a missing element:
\* the lookup of a missing e is a defined False, not missing
HailSetContains(S, e) == Some(e.def /\ e.v \in S)

\* hl.if_else(c, t, e): missing when the condition is missing
HailIfElse(c, t, e, na) == IF c.def THEN (IF c.v THEN t ELSE e) ELSE na

\* set.add(name): missing when the set is missing
HailSetAdd(s, name) == IF s.def THEN Some(s.v \cup {name}) ELSE NAset

HailLen(s) == IF s.def THEN Some(Cardinality(s.v)) ELSE NAint

\* table[key].field: missing when the table has no row for the key
Lookup(ht, s, field, na) == IF s \in DOMAIN ht THEN ht[s][field] ELSE na

----------------------------------------------------------------------------
(* Cohort and input domains.                                               *)

Samples == {"A", "B"}

\* a path of the work bucket that holds no table
NoFile == [exists |-> FALSE, ht |-> <<>>]
File(ht) == [exists |-> TRUE, ht |-> ht]

\* a Picard stats file of a sample: fpath says whether sample_df gives a path,
\* found whether the file has a column of the metric, val the value under it
NoPath == [fpath |-> FALSE, found |-> FALSE, val |-> 0]
NoMetric == [fpath |-> TRUE, found |-> FALSE, val |-> 0]
Metric(x) == [fpath |-> TRUE, found |-> TRUE, val |-> x]

SnpUpper == 3750000
SnpLower == 2400000
SingletonUpper == 100000
HetHomUpper == 33
FreemixUpper == 5
ChimerasUpper == 5
CoverageLower == 15
InsertSizeLower == 250

FilterNames == {"ambiguous_sex", "sex_aneuploidy", "low_coverage",
                "bad_qc_metrics", "contamination", "chimera", "coverage",
                "insert_size"}

Karyotypes == {"ambiguous", "XX", "XY", "X"}
CovThresholds == {18}

OptOf(S, na) == {na} \cup {Some(x) : x \in S}

SexRows == [sex_karyotype : OptOf(Karyotypes, NAstr),
            chr20_mean_dp : OptOf({17, 18}, NAint)]

QcRows == [n_snp : OptOf({SnpLower - 1, SnpLower, SnpUpper, SnpUpper + 1}, NAint),
           n_singleton : OptOf({SingletonUpper, SingletonUpper + 1}, NAint),
           r_het_hom_var : OptOf({HetHomUpper, HetHomUpper + 1}, NAint)]

PicardFiles(S) == {NoPath} \cup {Metric(x) : x \in S}

DfRows == [contamination : PicardFiles({FreemixUpper, FreemixUpper + 1}),
           alignment_summary_metrics : PicardFiles({ChimerasUpper, ChimerasUpper + 1}),
           wgs_metrics : PicardFiles({CoverageLower - 1, CoverageLower}),
           insert_size_metrics : PicardFiles({InsertSizeLower - 1, InsertSizeLower})]

EmptyTable == [s \in {} |-> 0]

\* rows of the second sample of the cohort: it passes the sex and coverage
\* filters, has no sample-QC row and fails on contamination
SexRowB == [sex_karyotype |-> Some("XX"), chr20_mean_dp |-> Some(18)]
DfRowB == [contamination |-> Metric(FreemixUpper + 1),
           alignment_summary_metrics |-> NoMetric,
           wgs_metrics |-> Metric(CoverageLower),
           insert_size_metrics |-> NoPath]

\* the tables in which sample "A" has no row or a row of Rows, and sample "B"
\* has the rows of RowsB (a function over {"B"} or over no sample)
Tables(Rows, RowsB) ==
    {RowsB} \cup { [s \in {"A"} \cup DOMAIN RowsB |->
                      IF s = "A" THEN r ELSE RowsB[s]] : r \in Rows }

----------------------------------------------------------------------------
(* Hard Filter Engine.                                                     *)

\* _parse_picard_metric: 'NA' when there is no path or the file has no column
\* of the metric, else the value under that column; import_table reads 'NA'
\* as a missing value
_parse_picard_metric(file) ==
    IF ~file.fpath THEN NAint
    ELSE IF ~file.found THEN NAint
    ELSE Some(file.val)

\* _parse_picard_metrics: one row per row of sample_df
_parse_picard_metrics(df) ==
    [s \in DOMAIN df |->
        [freemix |-> _parse_picard_metric(df[s].contamination),
         pct_chimeras |-> _parse_picard_metric(df[s].alignment_summary_metrics),
         median_insert_size |-> _parse_picard_metric(df[s].insert_size_metrics),
         mean_coverage |-> _parse_picard_metric(df[s].wgs_metrics)]]

add_filter(hard_filters, expr, name) ==
    HailIfElse(HailAnd(expr, HailIsDefined(expr)),
               HailSetAdd(hard_filters, name),
               hard_filters,
               NAset)

\* Table.checkpoint(path, overwrite, _read_if_exists = not overwrite):
\* <<store after the call, table returned>>
Checkpoint_reads_always(st, path, ht, overwrite) ==
    IF st[path].exists
    THEN <<st, st[path].ht>>
    ELSE <<[st EXCEPT ![path] = File(ht)], ht>>
Checkpoint(st, path, ht, overwrite) ==
    IF ~overwrite /\ st[path].exists
    THEN <<st, st[path].ht>>
    ELSE <<[st EXCEPT ![path] = File(ht)], ht>>

\* the chain of add_filter annotations for the row of sample s
HardFiltersOf(s, sex, qc, metrics, cov) ==
    LET karyotype == Lookup(sex, s, "sex_karyotype", NAstr)
        dp == Lookup(sex, s, "chr20_mean_dp", NAint)
        n_snp == Lookup(qc, s, "n_snp", NAint)
        n_singleton == Lookup(qc, s, "n_singleton", NAint)
        r_het_hom_var == Lookup(qc, s, "r_het_hom_var", NAint)
        f0 == Some({})
        f1 == add_filter(f0, HailEq(karyotype, Some("ambiguous")), "ambiguous_sex")
        f2 == add_filter(f1,
                  HailNot(HailSetContains({"ambiguous", "XX", "XY"}, karyotype)),
                  "sex_aneuploidy")
        f3 == add_filter(f2, HailLt(dp, Some(cov)), "low_coverage")
        f4 == add_filter(f3,
                  HailOr(HailOr(HailOr(HailGt(n_snp, Some(SnpUpper)),
                                       HailLt(n_snp, Some(SnpLower))),
                                HailGt(n_singleton, Some(SingletonUpper))),
                         HailGt(r_het_hom_var, Some(HetHomUpper))),
                  "bad_qc_metrics")
        f5 == add_filter(f4, HailGt(Lookup(metrics, s, "freemix", NAint),
                                    Some(FreemixUpper)), "contamination")
        f6 == add_filter(f5, HailGt(Lookup(metrics, s, "pct_chimeras", NAint),
                                    Some(ChimerasUpper)), "chimera")
        f7 == add_filter(f6, HailLt(Lookup(metrics, s, "mean_coverage", NAint),
                                    Some(CoverageLower)), "coverage")
        f8 == add_filter(f7, HailLt(Lookup(metrics, s, "median_insert_size", NAint),
                                    Some(InsertSizeLower)), "insert_size")
    IN f8

\* ht.filter(cond): a row is kept when cond is defined and true
FilterRows(ht, Keep(_)) ==
    LET D == { s \in DOMAIN ht : Keep(s).def /\ Keep(s).v }
    IN [s \in D |-> ht[s]]

compute_hard_filters(overwrite) ==
    /\ pc \in {"start", "hard_filtered"}
    /\ \E metrics_ht \in {_parse_picard_metrics(sample_df)} :
       \E annotated \in {[s \in Samples |->
                            [hard_filters |-> HardFiltersOf(s, sex_ht, sample_qc_ht,
                                                  metrics_ht, cov_threshold)]]} :
         LET st1 == Checkpoint(store, "picard_metrics.ht", metrics_ht, overwrite)[1]
             KeepRow(s) == HailGt(HailLen(annotated[s].hard_filters), Some(0))
             ht == FilterRows(annotated, KeepRow)
         IN \E res \in {Checkpoint(st1, "hard_filters.ht", ht, overwrite)} :
              /\ store' = res[1]
              /\ hard_filtered_samples_ht' = res[2]
    /\ pc' = "hard_filtered"
    /\ UNCHANGED <<main, batch, cov_threshold, sex_ht, sample_qc_ht, sample_df, relvars,
                   popvars, stratvars, metavars>>

StorePaths == {"picard_metrics.ht", "hard_filters.ht",
               "intermediate_samples_rankings.ht", "final_samples_rankings.ht",
               "intermediate_related_samples_to_drop.ht",
               "final_related_samples_to_drop.ht",
               "pop.ht", "RF_pop_assignments.txt.gz", "pop.RF_fit.pickle",
               "stratified_metrics.ht", "regressed_metrics.ht",
               "meta.ht", "meta.tsv", "pop_pca_scores.ht",
               "combiner/samples.csv", "raw/genomes.mt", "info.ht",
               "info-split.ht", "info.vcf"}

\* no value yet
None == [given |-> FALSE, ht |-> EmptyTable]
Given(ht) == [given |-> TRUE, ht |-> ht]

\* main is not running
\* hb.Batch(...): a batch without a job
NoBatch == [jobs |-> << >>, subset_gvcf_jobs |-> {}, combiner_job |-> 0,
            generate_info_job |-> 0, sample_qc_job |-> 0]

MainIdle ==
    /\ main = [pc |-> "", overwrite |-> FALSE, done |-> << >>]
    /\ batch = NoBatch

RelIdle ==
    /\ relatedness_ht = EmptyTable
    /\ kin_threshold = 0
    /\ regressed_metrics_ht = None
    /\ rank_ht = EmptyTable
    /\ filtered_samples_rel = {}
    /\ mis_g = EmptyTable
    /\ mis_heap = {}
    /\ call = [label |-> ""]
    /\ samples_to_drop_ht = EmptyTable

PopIdle ==
    /\ metadata_ht = EmptyTable
    /\ max_mislabeled_training_samples = 0
    /\ pop_pca_scores_ht = EmptyTable
    /\ pop_ht = EmptyTable
    /\ n_mislabeled_samples = 0
    /\ rounds = << >>
    /\ rf_fits = EmptyTable
    /\ pop_overwrite = FALSE

StratIdle ==
    /\ residuals_ht = EmptyTable
    /\ stratified_metrics_ht = EmptyTable
    /\ qc_metrics_stats = EmptyTable

MetaIdle ==
    /\ pca_related_samples_to_drop_ht = EmptyTable
    /\ final_related_samples_to_drop_ht = EmptyTable
    /\ meta_ht = EmptyTable

InitHF ==
    /\ pc = "start"
    /\ MainIdle
    /\ cov_threshold \in CovThresholds
    /\ sex_ht \in Tables(SexRows, [s \in {"B"} |-> SexRowB])
    /\ sample_qc_ht \in Tables(QcRows, EmptyTable)
    /\ sample_df \in Tables(DfRows, [s \in {"B"} |-> DfRowB])
    /\ store = [p \in StorePaths |-> NoFile]
    /\ hard_filtered_samples_ht = EmptyTable
    /\ RelIdle
    /\ PopIdle
    /\ StratIdle
    /\ MetaIdle

NextHF == \E overwrite \in BOOLEAN : compute_hard_filters(overwrite)

SpecHF == InitHF /\ [][NextHF]_vars

----------------------------------------------------------------------------
(* Properties of the Hard Filter Engine.                                   *)

\* the inputs of the predicates, as the collaborators supply them
InSex(s, field) == IF s \in DOMAIN sex_ht THEN sex_ht[s][field] ELSE NAint
InQc(s, field) == IF s \in DOMAIN sample_qc_ht THEN sample_qc_ht[s][field] ELSE NAint
InPicard(s, column) ==
    IF s \in DOMAIN sample_df /\ sample_df[s][column].fpath /\ sample_df[s][column].found
    THEN Some(sample_df[s][column].val)
    ELSE NAint

\* the table of predicates; a predicate on an undefined input is false
Fails(s, name) ==
    CASE name = "ambiguous_sex" ->
           InSex(s, "sex_karyotype").def /\ InSex(s, "sex_karyotype").v = "ambiguous"
      [] name = "sex_aneuploidy" ->
           /\ InSex(s, "sex_karyotype").def
           /\ InSex(s, "sex_karyotype").v \notin {"ambiguous", "XX", "XY"}
      [] name = "low_coverage" ->
           InSex(s, "chr20_mean_dp").def /\ InSex(s, "chr20_mean_dp").v < cov_threshold
      [] name = "bad_qc_metrics" ->
           \/ InQc(s, "n_snp").def /\ InQc(s, "n_snp").v > SnpUpper
           \/ InQc(s, "n_snp").def /\ InQc(s, "n_snp").v < SnpLower
           \/ InQc(s, "n_singleton").def /\ InQc(s, "n_singleton").v > SingletonUpper
           \/ InQc(s, "r_het_hom_var").def /\ InQc(s, "r_het_hom_var").v > HetHomUpper
      [] name = "contamination" ->
           InPicard(s, "contamination").def /\ InPicard(s, "contamination").v > FreemixUpper
      [] name = "chimera" ->
           /\ InPicard(s, "alignment_summary_metrics").def
           /\ InPicard(s, "alignment_summary_metrics").v > ChimerasUpper
      [] name = "coverage" ->
           InPicard(s, "wgs_metrics").def /\ InPicard(s, "wgs_metrics").v < CoverageLower
      [] name = "insert_size" ->
           /\ InPicard(s, "insert_size_metrics").def
           /\ InPicard(s, "insert_size_metrics").v < InsertSizeLower

FailedNames(s) == { name \in FilterNames : Fails(s, name) }

\* the labels the returned table gives a sample (none when it has no row)
LabelsOf(s) ==
    IF s \in DOMAIN hard_filtered_samples_ht
    THEN hard_filtered_samples_ht[s].hard_filters.v
    ELSE {}

\* C1: for every sample the hard_filters set produced by compute_hard_filters
\* is exactly the set of the eight names whose predicate is true for it
C1_HardFiltersExact ==
    pc = "hard_filtered" => \A s \in Samples : LabelsOf(s) = FailedNames(s)

\* C2: a sample is absent from the returned table iff it fails zero of the
\* eight predicates, and every row present carries a non-empty set
C2_AbsentIffPasses ==
    pc = "hard_filtered" =>
        /\ \A s \in Samples :
              s \notin DOMAIN hard_filtered_samples_ht <=> FailedNames(s) = {}
        /\ \A s \in DOMAIN hard_filtered_samples_ht :
              /\ hard_filtered_samples_ht[s].hard_filters.def
              /\ hard_filtered_samples_ht[s].hard_filters.v # {}

\* the inputs a predicate reads
InputsOf(s, name) ==
    CASE name \in {"ambiguous_sex", "sex_aneuploidy"} -> {InSex(s, "sex_karyotype")}
      [] name = "low_coverage" -> {InSex(s, "chr20_mean_dp")}
      [] name = "bad_qc_metrics" ->
           {InQc(s, "n_snp"), InQc(s, "n_singleton"), InQc(s, "r_het_hom_var")}
      [] name = "contamination" -> {InPicard(s, "contamination")}
      [] name = "chimera" -> {InPicard(s, "alignment_summary_metrics")}
      [] name = "coverage" -> {InPicard(s, "wgs_metrics")}
      [] name = "insert_size" -> {InPicard(s, "insert_size_metrics")}

\* C3: a predicate none of whose inputs is defined for a sample does not add
\* its name, the set stays defined and the other labels are as their own
\* predicates decide
C3_UndefinedInputNotFailing ==
    pc = "hard_filtered" =>
        \A s \in Samples :
            /\ s \in DOMAIN hard_filtered_samples_ht =>
                  hard_filtered_samples_ht[s].hard_filters.def
            /\ \A name \in FilterNames :
                  (\A x \in InputsOf(s, name) : ~x.def) => name \notin LabelsOf(s)

\* apart from the label sex_aneuploidy of a sample without a karyotype, the
\* labels are exactly the names of the failing predicates
HardFiltersExactButAneuploidy ==
    pc = "hard_filtered" =>
        \A s \in Samples :
            /\ LabelsOf(s) \ {"sex_aneuploidy"} = FailedNames(s) \ {"sex_aneuploidy"}
            /\ InSex(s, "sex_karyotype").def =>
                  ("sex_aneuploidy" \in LabelsOf(s) <=> Fails(s, "sex_aneuploidy"))
            /\ ~InSex(s, "sex_karyotype").def => "sex_aneuploidy" \in LabelsOf(s)

----------------------------------------------------------------------------
(* Relatedness Graph Resolver.                                             *)

CohortOrder == <<"s1", "s2", "s3", "s4">>
Pairs == { <<CohortOrder[m], CohortOrder[n]>> : m, n \in 1..Len(CohortOrder) }

\* hl.or_else(a, b): b when a is missing
HailOrElse_default(a, b) == b
HailOrElse(a, b) == IF a.def THEN a.v ELSE b

\* the second ranking by the stratified filters alone
FilteredField_qc_only(hard, use_qc_metrics_filters, regressed, s) ==
    IF use_qc_metrics_filters /\ regressed.given
    THEN HailOrElse(
            HailGt(HailLen(Lookup(regressed.ht, s, "qc_metrics_filters", NAset)),
                   Some(0)), FALSE)
    ELSE HailOrElse(
            HailGt(HailLen(Lookup(hard, s, "hard_filters", NAset)), Some(0)), FALSE)

\* the `filtered` field of _compute_sample_rankings for sample s
FilteredField(hard, use_qc_metrics_filters, regressed, s) ==
    LET by_hard == HailOrElse(
            HailGt(HailLen(Lookup(hard, s, "hard_filters", NAset)), Some(0)), FALSE)
    IN IF use_qc_metrics_filters /\ regressed.given
       THEN IF by_hard THEN TRUE
            ELSE HailOrElse(
                    HailGt(HailLen(Lookup(regressed.ht, s, "qc_metrics_filters", NAset)),
                           Some(0)), FALSE)
       ELSE by_hard

\* the sort with the coverage in ascending order
SortsBefore_ascending(fa, dpa, fb, dpb) ==
    \/ ~fa /\ fb
    \/ fa = fb /\ dpa.def /\ dpb.def /\ dpa.v < dpb.v

\* order_by(filtered, desc(chr20_mean_dp)): a comes before b. The order of
\* two rows with equal keys, and the place of a row with a missing
\* chr20_mean_dp among the rows of its `filtered` value, are not fixed by
\* order_by
SortsBefore(fa, dpa, fb, dpb) ==
    \/ ~fa /\ fb
    \/ fa = fb /\ dpa.def /\ dpb.def /\ dpa.v > dpb.v

\* _compute_sample_rankings: the rank tables order_by and add_index can give
_compute_sample_rankings(hard, sex, use_qc_metrics_filters, regressed) ==
    LET D == DOMAIN sex
        filtered == [s \in D |->
                        FilteredField(hard, use_qc_metrics_filters, regressed, s)]
        Orders == { r \in [D -> 0..(Cardinality(D) - 1)] :
                      /\ \A a, b \in D : a # b => r[a] # r[b]
                      /\ \A a, b \in D :
                            SortsBefore(filtered[a], sex[a].chr20_mean_dp,
                                        filtered[b], sex[b].chr20_mean_dp)
                                => r[a] < r[b] }
    IN { [s \in D |-> [filtered |-> filtered[s], rank |-> r[s]]] : r \in Orders }

\* every pair of the table is called related
RelatedPairs_unfiltered(rel, threshold) == DOMAIN rel

\* compute_related_samples_to_drop: the pairs called related
RelatedPairs(rel, threshold) == { p \in DOMAIN rel : rel[p].kin > threshold }

EndsOf(pairs) == { p[1] : p \in pairs } \cup { p[2] : p \in pairs }

\* every filtered sample, in a related pair or not
FilteredSamplesRel_all(pairs, filtered_samples) == filtered_samples

\* compute_related_samples_to_drop: the filtered samples found in a related pair
FilteredSamplesRel(pairs, filtered_samples) == EndsOf(pairs) \cap filtered_samples

\* filter(..., keep=True): the pairs of the filtered samples are the ones kept
PairsWithoutFiltered_keep(pairs, filtered_rel) ==
    IF filtered_rel # {}
    THEN { p \in pairs : p[1] \in filtered_rel \/ p[2] \in filtered_rel }
    ELSE pairs

\* the pairs of the filtered samples are not taken out
PairsWithoutFiltered_all(pairs, filtered_rel) == pairs

\* compute_related_samples_to_drop: the pairs handed to maximal_independent_set
PairsWithoutFiltered(pairs, filtered_rel) ==
    IF filtered_rel # {}
    THEN { p \in pairs : p[1] \notin filtered_rel /\ p[2] \notin filtered_rel }
    ELSE pairs

\* Graph.mkGraph: every vertex of an edge with the set of its neighbours
mkGraph(edges) ==
    [v \in EndsOf(edges) |->
        { p[2] : p \in { q \in edges : q[1] = v } }
            \cup { p[1] : p \in { q \in edges : q[2] = v } }]

\* the tie breaker with its operands exchanged
tie_breaker_reversed(ranks, l, r) == ranks[r].rank - ranks[l].rank

\* tie_breaker = lambda l, r: l.rank - r.rank
tie_breaker(ranks, l, r) == ranks[l].rank - ranks[r].rank

\* BinaryHeap: a is extracted before b (higher degree, then the tie breaker)
Favored(g, ranks, a, b) ==
    \/ Cardinality(g[a]) > Cardinality(g[b])
    \/ Cardinality(g[a]) = Cardinality(g[b]) /\ tie_breaker(ranks, a, b) > 0

\* BinaryHeap.extractMax: the vertices the heap can give next
HeapMax(g, heap, ranks) ==
    { v \in heap : \A w \in heap \ {v} : ~Favored(g, ranks, w, v) }

Label_final(regressed) == "final"
Label(regressed) == IF regressed.given THEN "final" ELSE "intermediate"
RankPath(label) == label \o "_samples_rankings.ht"
DropPath(label) == label \o "_related_samples_to_drop.ht"

\* flag_related_samples up to the call of maximal_independent_set
flag_related_samples(overwrite) ==
    /\ pc \in {"start", "flagged"}
    /\ LET label == Label(regressed_metrics_ht)
       IN IF ~overwrite /\ store[DropPath(label)].exists
          THEN /\ samples_to_drop_ht' = store[DropPath(label)].ht
               /\ pc' = "flagged"
               /\ call' = [label |-> label]
               /\ UNCHANGED <<store, rank_ht, filtered_samples_rel, mis_g, mis_heap>>
          ELSE \E computed \in _compute_sample_rankings(hard_filtered_samples_ht,
                                  sex_ht, regressed_metrics_ht.given,
                                  regressed_metrics_ht) :
               \E ck \in {Checkpoint(store, RankPath(label), computed, overwrite)} :
                 LET ranks == ck[2]
                     filtered_samples == { s \in DOMAIN ranks : ranks[s].filtered }
                     related == RelatedPairs(relatedness_ht, kin_threshold)
                     filtered_rel == FilteredSamplesRel(related, filtered_samples)
                     g == mkGraph(PairsWithoutFiltered(related, filtered_rel))
                 IN /\ store' = ck[1]
                    /\ rank_ht' = ranks
                    /\ filtered_samples_rel' = filtered_rel
                    /\ mis_g' = g
                    /\ mis_heap' = DOMAIN g
                    /\ call' = [label |-> label]
                    /\ pc' = "mis"
                    /\ UNCHANGED samples_to_drop_ht
    /\ UNCHANGED <<main, batch, sex_ht, hard_filtered_samples_ht, hfvars, relatedness_ht,
                   kin_threshold, regressed_metrics_ht, popvars, stratvars,
                   metavars>>

\* a turn of the loop that leaves the vertex in the heap
mis_step_keeps ==
    /\ pc = "mis"
    /\ \E current \in HeapMax(mis_g, mis_heap, rank_ht) :
         /\ Cardinality(mis_g[current]) > 0
         /\ mis_heap' = mis_heap
         /\ mis_g' = [x \in DOMAIN mis_g |->
                         IF x \in mis_g[current] \ {current}
                         THEN mis_g[x] \ {current}
                         ELSE mis_g[x]]
    /\ UNCHANGED <<main, batch, pc, sex_ht, store, hard_filtered_samples_ht, hfvars,
                   relatedness_ht, kin_threshold, regressed_metrics_ht, rank_ht,
                   filtered_samples_rel, call, samples_to_drop_ht, popvars,
                   stratvars, metavars>>

\* Graph.maximalIndependentSet: one turn of the loop, which removes the
\* vertex of highest degree
mis_step ==
    /\ pc = "mis"
    /\ \E current \in HeapMax(mis_g, mis_heap, rank_ht) :
         /\ Cardinality(mis_g[current]) > 0
         /\ mis_heap' = mis_heap \ {current}
         /\ mis_g' = [x \in DOMAIN mis_g |->
                         IF x \in mis_g[current] \ {current}
                         THEN mis_g[x] \ {current}
                         ELSE mis_g[x]]
    /\ UNCHANGED <<main, batch, pc, sex_ht, store, hard_filtered_samples_ht, hfvars,
                   relatedness_ht, kin_threshold, regressed_metrics_ht, rank_ht,
                   filtered_samples_rel, call, samples_to_drop_ht, popvars,
                   stratvars, metavars>>

\* the end of the loop and the rest of flag_related_samples: the vertices
\* that were removed, with their rank, and the filtered samples of a related
\* pair, with a missing rank
flag_related_samples_return ==
    /\ pc = "mis"
    /\ \A v \in mis_heap : Cardinality(mis_g[v]) = 0
    /\ LET removed == DOMAIN mis_g \ mis_heap
           ht == [s \in removed \cup filtered_samples_rel |->
                    [rank |-> IF s \in removed THEN Some(rank_ht[s].rank) ELSE NAint]]
       IN /\ samples_to_drop_ht' = ht
          /\ store' = [store EXCEPT ![DropPath(call.label)] = File(ht)]
    /\ pc' = "flagged"
    /\ UNCHANGED <<main, batch, sex_ht, hard_filtered_samples_ht, hfvars, relatedness_ht,
                   kin_threshold, regressed_metrics_ht, rank_ht,
                   filtered_samples_rel, mis_g, mis_heap, call, popvars,
                   stratvars, metavars>>

KinValues == {1, 2, 3}
KinThresholds == {2}
MaxDp == 2

CohortOf(n) == { CohortOrder[m] : m \in 1..n }

\* the sex tables, up to the names of the samples (coverage does not increase
\* along CohortOrder): three samples with any coverage in 1..MaxDp or none
\* (written 0), or four samples with the coverages MaxDp + 3, ..., MaxDp
CoverageTables ==
    LET Dps == { d \in [CohortOf(3) -> 0..MaxDp] :
                   d["s1"] >= d["s2"] /\ d["s2"] >= d["s3"] }
               \cup { [s \in CohortOf(4) |->
                         CHOOSE v \in MaxDp..(MaxDp + 3) :
                            s = CohortOrder[MaxDp + 4 - v]] }
    IN { [s \in DOMAIN d |->
            [sex_karyotype |-> Some("XX"),
             chr20_mean_dp |-> IF d[s] = 0 THEN NAint ELSE Some(d[s])]] : d \in Dps }

\* pc_relate gives one row for a pair, i before j in the cohort
RelatednessTables(cohort) ==
    LET Keys == { p \in Pairs : \E m, n \in 1..Len(CohortOrder) :
                    /\ m < n
                    /\ p = <<CohortOrder[m], CohortOrder[n]>>
                    /\ p[1] \in cohort /\ p[2] \in cohort }
    IN { [p \in Keys |-> [kin |-> k[p]]] : k \in [Keys -> KinValues] }

HardFilterTables(cohort) ==
    { [s \in D |-> [hard_filters |-> Some({"low_coverage"})]] : D \in SUBSET cohort }

\* for the final run: no sample, or the first one, fails a stratified metric
RegressedTables(cohort) ==
    { [s \in cohort |-> [qc_metrics_filters |->
                            Some(IF s \in Q THEN {"n_snp_residual"} ELSE {})]] :
        Q \in {{}, {"s1"}} }

InitRel ==
    /\ pc = "start"
    /\ MainIdle
    /\ cov_threshold = 0
    /\ sample_qc_ht = EmptyTable
    /\ sample_df = EmptyTable
    /\ store = [p \in StorePaths |-> NoFile]
    /\ sex_ht \in CoverageTables
    /\ hard_filtered_samples_ht \in HardFilterTables(DOMAIN sex_ht)
    /\ relatedness_ht \in RelatednessTables(DOMAIN sex_ht)
    /\ kin_threshold \in KinThresholds
    /\ regressed_metrics_ht \in
          {None} \cup { Given(t) : t \in IF Cardinality(DOMAIN sex_ht) = 3
                                         THEN RegressedTables(DOMAIN sex_ht)
                                         ELSE {} }
    /\ rank_ht = EmptyTable
    /\ filtered_samples_rel = {}
    /\ mis_g = EmptyTable
    /\ mis_heap = {}
    /\ call = [label |-> ""]
    /\ samples_to_drop_ht = EmptyTable
    /\ PopIdle
    /\ StratIdle
    /\ MetaIdle

NextRel ==
    \/ \E overwrite \in BOOLEAN : flag_related_samples(overwrite)
    \/ mis_step
    \/ flag_related_samples_return

SpecRel == InitRel /\ [][NextRel]_vars

----------------------------------------------------------------------------
(* Properties of the Relatedness Graph Resolver.                           *)

Finished == pc = "flagged"
Dropped == DOMAIN samples_to_drop_ht
Kept == DOMAIN sex_ht \ Dropped

\* the relatedness table joins i and j with a kinship of at least, above, t
JoinedAtLeast(i, j, t) ==
    /\ i # j
    /\ \E p \in DOMAIN relatedness_ht :
          {p[1], p[2]} = {i, j} /\ relatedness_ht[p].kin >= t

JoinedAbove(i, j, t) ==
    /\ i # j
    /\ \E p \in DOMAIN relatedness_ht :
          {p[1], p[2]} = {i, j} /\ relatedness_ht[p].kin > t

IsFiltered(s) == rank_ht[s].filtered
RankOf(s) == rank_ht[s].rank

\* C4 as stated: no two kept samples are joined by an edge with
\* kinship >= kin_threshold
C4_NoKeptPairAtLeastThreshold ==
    Finished => \A i, j \in Kept : ~JoinedAtLeast(i, j, kin_threshold)

\* C4 amended: no two kept samples are joined by an edge with
\* kinship > kin_threshold
C4_NoKeptPairAboveThreshold ==
    Finished => \A i, j \in Kept : ~JoinedAbove(i, j, kin_threshold)

\* a sample was dropped, and two kept samples have exactly the threshold
C4_Witness ==
    /\ Finished
    /\ Dropped # {}
    /\ \E i, j \in Kept : JoinedAtLeast(i, j, kin_threshold)

IndependentAtLeast(S) == \A i, j \in S : ~JoinedAtLeast(i, j, kin_threshold)
IndependentAbove(S) == \A i, j \in S : ~JoinedAbove(i, j, kin_threshold)

RECURSIVE MisRun(_, _, _)
MisRun(g, heap, ranks) ==
    IF \A v \in heap : Cardinality(g[v]) = 0
    THEN heap
    ELSE LET current == CHOOSE v \in HeapMax(g, heap, ranks) : TRUE
         IN MisRun([x \in DOMAIN g |->
                       IF x \in g[current] \ {current}
                       THEN g[x] \ {current}
                       ELSE g[x]],
                   heap \ {current}, ranks)

\* the drop set that the edges, the threshold and a rank table determine
DropSetFor(ranks) ==
    LET filtered_samples == { s \in DOMAIN ranks : ranks[s].filtered }
        related == RelatedPairs(relatedness_ht, kin_threshold)
        filtered_rel == FilteredSamplesRel(related, filtered_samples)
        g == mkGraph(PairsWithoutFiltered(related, filtered_rel))
    IN (DOMAIN g \ MisRun(g, DOMAIN g, ranks)) \cup filtered_rel

CohortIndex(s) == CHOOSE n \in 1..Len(CohortOrder) : CohortOrder[n] = s

SameSortKeys(a, b) ==
    /\ rank_ht[a].filtered = rank_ht[b].filtered
    /\ sex_ht[a].chr20_mean_dp = sex_ht[b].chr20_mean_dp

\* the rank tables in which samples with equal sort keys are in the
\* lexicographic order of their ids
LexRankTables ==
    { r \in _compute_sample_rankings(hard_filtered_samples_ht, sex_ht,
                                     regressed_metrics_ht.given, regressed_metrics_ht) :
        \A a, b \in DOMAIN sex_ht :
            (SameSortKeys(a, b) /\ CohortIndex(a) < CohortIndex(b))
                => r[a].rank < r[b].rank }

\* C9: the drop set is the one that the edges, the threshold and the ranking
\* determine, the ties left by the ranking being broken by the lexicographic
\* order of the sample ids
C9_DropSetDetermined ==
    Finished => \E r \in LexRankTables : Dropped = DropSetFor(r)

\* given the rank table the run has used, the drop set is determined
DropSetFunctionOfRanks ==
    Finished => Dropped = DropSetFor(rank_ht)

\* the `filtered` status that the input tables give a sample
InputFiltered(s) ==
    \/ /\ s \in DOMAIN hard_filtered_samples_ht
       /\ hard_filtered_samples_ht[s].hard_filters.def
       /\ hard_filtered_samples_ht[s].hard_filters.v # {}
    \/ /\ regressed_metrics_ht.given
       /\ s \in DOMAIN regressed_metrics_ht.ht
       /\ regressed_metrics_ht.ht[s].qc_metrics_filters.def
       /\ regressed_metrics_ht.ht[s].qc_metrics_filters.v # {}

\* C10: the ranks of the samples of the sex table are distinct and form
\* 0..n-1, every unfiltered sample is ranked before every filtered one, and
\* of two samples with the same filtered value the one with the strictly
\* higher chr20_mean_dp has the strictly lower rank
C10_RankingDenseAndOrdered ==
    pc \in {"mis", "flagged"} =>
        LET D == DOMAIN sex_ht
        IN /\ DOMAIN rank_ht = D
           /\ { rank_ht[s].rank : s \in D } = 0..(Cardinality(D) - 1)
           /\ \A a, b \in D : a # b => rank_ht[a].rank # rank_ht[b].rank
           /\ \A a, b \in D :
                 (~InputFiltered(a) /\ InputFiltered(b))
                    => rank_ht[a].rank < rank_ht[b].rank
           /\ \A a, b \in D :
                 (/\ InputFiltered(a) = InputFiltered(b)
                  /\ sex_ht[a].chr20_mean_dp.def /\ sex_ht[b].chr20_mean_dp.def
                  /\ sex_ht[a].chr20_mean_dp.v > sex_ht[b].chr20_mean_dp.v)
                    => rank_ht[a].rank < rank_ht[b].rank

\* a ranking of filtered and unfiltered samples of different coverage, one
\* of them filtered by its stratified metrics only
C10_Witness ==
    /\ pc \in {"mis", "flagged"}
    /\ \E a, b, c \in DOMAIN sex_ht :
          /\ ~InputFiltered(a) /\ ~InputFiltered(b) /\ InputFiltered(c)
          /\ c \notin DOMAIN hard_filtered_samples_ht
          /\ sex_ht[c].chr20_mean_dp.def /\ sex_ht[a].chr20_mean_dp.def
          /\ sex_ht[b].chr20_mean_dp.def
          /\ sex_ht[c].chr20_mean_dp.v > sex_ht[b].chr20_mean_dp.v
          /\ sex_ht[a].chr20_mean_dp.v > sex_ht[b].chr20_mean_dp.v
          /\ rank_ht[a].rank < rank_ht[b].rank
          /\ rank_ht[b].rank < rank_ht[c].rank

----------------------------------------------------------------------------
(* Population Classifier: assign_pops.  The random forest is a function of  *)
(* the scores and the training labels that the model does not compute: a   *)
(* fit is chosen when a set of training labels is first seen, and is the   *)
(* same whenever these labels are seen again (the seed is fixed).          *)

PopLabels == {"CEU", "YRI"}
Populations == PopLabels \cup {""}
MaxMislabeled == 1
PopCohort == CohortOf(4)

\* the label assign_population_pcs gives when no probability reaches min_prob
missing_label == "oth"

HailNe(a, b) == HailNot(HailEq(a, b))
\* hl.or_missing(c, x)
HailOrMissing_kept(c, x, na) == x
HailOrMissing(c, x, na) == IF c.def /\ c.v THEN x ELSE na

\* hl.agg.count_where(cond): the rows where cond is defined and true
CountWhere(ht, Cond(_)) ==
    Cardinality({ s \in DOMAIN ht : Cond(s).def /\ Cond(s).v })

\* the training data of assign_population_pcs: rows with a known population
TrainData(ht) == { s \in DOMAIN ht : ht[s].training_pop.def }

\* the part of the training data the forest is fitted on:
\* random.sample(range(N), int(N * prop_train)), prop_train = 0.8
FitSamples(ht) ==
    LET N == Cardinality(TrainData(ht))
    IN { F \in SUBSET TrainData(ht) : Cardinality(F) = (N * 4) \div 5 }

\* the tables a forest fitted on the samples F may give: each sample gets
\* one of the classes of F, or missing_label
Predictions(ht, F) ==
    LET classes == { ht[s].training_pop.v : s \in F }
    IN { [s \in DOMAIN ht |->
            [training_pop |-> ht[s].training_pop, pop |-> Some(p[s]),
             pca_scores |-> ht[s].scores]] :
         p \in [DOMAIN ht -> classes \cup {missing_label}] }

\* assign_population_pcs: the tables it may return; none when fitting the
\* forest raises, which it does for an empty array of samples
assign_population_pcs_silent(ht) ==
    UNION { Predictions(ht, F) : F \in FitSamples(ht) }
assign_population_pcs(ht) ==
    UNION { IF F = {} THEN {} ELSE Predictions(ht, F) : F \in FitSamples(ht) }

\* the outcomes of one round: the table, the count of mislabeled samples
\* and the fits known after it, or raised
_run_assign_population_pcs(ht, fits) ==
    LET examples_num == CountWhere(ht, LAMBDA s : HailIsDefined(ht[s].training_pop))
        labels == [s \in DOMAIN ht |-> ht[s].training_pop]
        tables == IF labels \in DOMAIN fits
                  THEN {fits[labels]}
                  ELSE assign_population_pcs(ht)
    IN IF tables = {}
       THEN {[raised |-> TRUE, examples_num |-> examples_num, pop_ht |-> EmptyTable,
              n_mislabeled_samples |-> 0, fits |-> fits]}
       ELSE {[raised |-> FALSE, examples_num |-> examples_num, pop_ht |-> t,
              n_mislabeled_samples |->
                  CountWhere(t, LAMBDA s : HailNe(t[s].training_pop, t[s].pop)),
              fits |-> [l \in DOMAIN fits \cup {labels} |->
                           IF l = labels THEN t ELSE fits[l]]] :
             t \in tables}

\* what follows a round in assign_pops: the round is logged, an exception
\* of the classifier ends the call
AfterRound(round, before) ==
    /\ rf_fits' = round.fits
    /\ rounds' = Append(before, [examples_num |-> round.examples_num,
                                 raised |-> round.raised,
                                 n_mislabeled_samples |-> round.n_mislabeled_samples,
                                 pop_ht |-> round.pop_ht])
    /\ pop_ht' = round.pop_ht
    /\ n_mislabeled_samples' = round.n_mislabeled_samples
    /\ pc' = IF round.raised THEN "pop_raised" ELSE "pop_loop"

\* assign_pops up to the test of its loop
assign_pops(overwrite) ==
    /\ pc \in {"start", "pop_assigned"}
    /\ LET samples_with_pop_ht ==
               FilterRows(metadata_ht,
                          LAMBDA s : HailNe(metadata_ht[s].population, Some("")))
           annotated == [s \in DOMAIN pop_pca_scores_ht |->
                           [scores |-> pop_pca_scores_ht[s].scores,
                            training_pop |-> Lookup(samples_with_pop_ht, s,
                                                    "population", NAstr)]]
       IN /\ pop_pca_scores_ht' = annotated
          /\ \E round \in _run_assign_population_pcs(annotated, rf_fits) :
               AfterRound(round, << >>)
    /\ pop_overwrite' = overwrite
    /\ UNCHANGED <<main, batch, sex_ht, store, hard_filtered_samples_ht, hfvars, relvars,
                   metadata_ht, max_mislabeled_training_samples, stratvars,
                   metavars>>

\* one turn of the loop of assign_pops
LoopTest_at_least(n, max) == n >= max
LoopTest(n, max) == n > max

\* a turn of the loop that gives a mislabeled sample the label that was
\* predicted for it
assign_pops_retrain_relabels ==
    /\ pc = "pop_loop"
    /\ LoopTest(n_mislabeled_samples, max_mislabeled_training_samples)
    /\ LET retained == [s \in DOMAIN pop_pca_scores_ht |->
                          [scores |-> pop_pca_scores_ht[s].scores,
                           training_pop |->
                              HailOrMissing(
                                 HailEq(Lookup(pop_ht, s, "training_pop", NAstr),
                                        Lookup(pop_ht, s, "pop", NAstr)),
                                 pop_pca_scores_ht[s].training_pop,
                                 Lookup(pop_ht, s, "pop", NAstr))]]
       IN /\ pop_pca_scores_ht' = retained
          /\ \E round \in _run_assign_population_pcs(retained, rf_fits) :
               AfterRound(round, rounds)
    /\ UNCHANGED <<main, batch, sex_ht, store, hard_filtered_samples_ht, hfvars, relvars,
                   metadata_ht, max_mislabeled_training_samples, pop_overwrite,
                   stratvars, metavars>>

assign_pops_retrain ==
    /\ pc = "pop_loop"
    /\ LoopTest(n_mislabeled_samples, max_mislabeled_training_samples)
    /\ LET retained == [s \in DOMAIN pop_pca_scores_ht |->
                          [scores |-> pop_pca_scores_ht[s].scores,
                           training_pop |->
                              HailOrMissing(
                                 HailEq(Lookup(pop_ht, s, "training_pop", NAstr),
                                        Lookup(pop_ht, s, "pop", NAstr)),
                                 pop_pca_scores_ht[s].training_pop, NAstr)]]
       IN /\ pop_pca_scores_ht' = retained
          /\ \E round \in _run_assign_population_pcs(retained, rf_fits) :
               AfterRound(round, rounds)
    /\ UNCHANGED <<main, batch, sex_ht, store, hard_filtered_samples_ht, hfvars, relvars,
                   metadata_ht, max_mislabeled_training_samples, pop_overwrite,
                   stratvars, metavars>>

\* export of a file unless it is there and overwrite is off
Export(st, path, ht, overwrite) ==
    IF overwrite \/ ~st[path].exists THEN [st EXCEPT ![path] = File(ht)] ELSE st

\* the end of the loop and the rest of assign_pops
assign_pops_return ==
    /\ pc = "pop_loop"
    /\ ~LoopTest(n_mislabeled_samples, max_mislabeled_training_samples)
    /\ \E ck \in {Checkpoint(store, "pop.ht", pop_ht, pop_overwrite)} :
         /\ pop_ht' = ck[2]
         /\ store' = Export(Export(ck[1], "RF_pop_assignments.txt.gz", ck[2],
                                   pop_overwrite),
                            "pop.RF_fit.pickle", pop_ht, pop_overwrite)
    /\ pc' = "pop_assigned"
    /\ UNCHANGED <<main, batch, sex_ht, hard_filtered_samples_ht, hfvars, relvars, metadata_ht,
                   max_mislabeled_training_samples, pop_pca_scores_ht,
                   n_mislabeled_samples, rounds, rf_fits, pop_overwrite,
                   stratvars, metavars>>

MetadataTables ==
    { [s \in PopCohort |-> [population |-> Some(m[s])]] :
        m \in [PopCohort -> Populations] }

InitPop ==
    /\ pc = "start"
    /\ MainIdle
    /\ sex_ht = EmptyTable
    /\ store = [p \in StorePaths |-> NoFile]
    /\ hard_filtered_samples_ht = EmptyTable
    /\ cov_threshold = 0
    /\ sample_qc_ht = EmptyTable
    /\ sample_df = EmptyTable
    /\ RelIdle
    /\ metadata_ht \in MetadataTables
    /\ max_mislabeled_training_samples \in 0..MaxMislabeled
    /\ pop_pca_scores_ht = [s \in PopCohort |-> [scores |-> s]]
    /\ pop_ht = EmptyTable
    /\ n_mislabeled_samples = 0
    /\ rounds = << >>
    /\ rf_fits = EmptyTable
    /\ pop_overwrite = FALSE
    /\ StratIdle
    /\ MetaIdle

NextPop ==
    \/ \E overwrite \in BOOLEAN : assign_pops(overwrite)
    \/ assign_pops_retrain
    \/ assign_pops_return

SpecPop == InitPop /\ [][NextPop]_vars

----------------------------------------------------------------------------
(* Properties of the Population Classifier.                                *)

Converged == pc = "pop_assigned"
LastRound == rounds[Len(rounds)]

\* C11: every round after the first trains on strictly fewer labelled
\* samples than the round before it, and the loop of assign_pops takes at
\* most as many turns as there were labelled samples at the start
C11_TrainingSetShrinks ==
    rounds # << >> =>
       /\ \A i \in 2..Len(rounds) :
             rounds[i].examples_num < rounds[i - 1].examples_num
       /\ Len(rounds) - 1 <= rounds[1].examples_num

\* two turns of the loop, then convergence
C11_Witness ==
    /\ Converged
    /\ Len(rounds) = 3
    /\ rounds[3].examples_num > 0

C13_TooSmallIsFatal ==
    /\ \A i \in 1..Len(rounds) :
          /\ rounds[i].examples_num = 0 => rounds[i].raised
          /\ rounds[i].raised => i = Len(rounds) /\ pc = "pop_raised"
    /\ pc = "pop_raised" => rounds # << >> /\ LastRound.raised
    /\ Converged =>
          /\ \A i \in 1..Len(rounds) : rounds[i].examples_num > 0
          /\ LastRound.n_mislabeled_samples <= max_mislabeled_training_samples

\* the training set shrinks in the loop until the classifier raises
C13_Witness ==
    /\ pc = "pop_raised"
    /\ Len(rounds) >= 2
    /\ rounds[1].examples_num >= 2

----------------------------------------------------------------------------
(* Stratified Outlier Detector: compute_stratified_qc (raw mode) and       *)
(* apply_regressed_filters (residual mode), both through                   *)
(* compute_stratified_metrics_filter.  A metric value is an integer; a     *)
(* statistic is an integer count of 1/40000, which holds the half of an    *)
(* even median, the half of that in the MAD and the factor 1.4826.         *)

HailLe(a, b) == IF a.def /\ b.def THEN Some(a.v <= b.v) ELSE NAbool
HailGe(a, b) == IF a.def /\ b.def THEN Some(a.v >= b.v) ELSE NAbool

Abs(x) == IF x < 0 THEN -x ELSE x

\* element k (from 0) of the sorted values of f over S
Kth(f, S, k) ==
    CHOOSE v \in { f[s] : s \in S } :
       /\ Cardinality({ s \in S : f[s] < v }) <= k
       /\ Cardinality({ s \in S : f[s] <= v }) > k

\* hl.median of the values of f over S, in quarters: the middle element,
\* or the mean of the two middle ones, rounded down for an integer type
Median(f, S, is_int) ==
    LET n == Cardinality(S)
        mid == (n - 1) \div 2
    IN IF n % 2 = 1
       THEN Kth(f, S, mid)
       ELSE IF is_int
            THEN ((Kth(f, S, mid) + Kth(f, S, mid + 1)) \div 8) * 4
            ELSE (Kth(f, S, mid) + Kth(f, S, mid + 1)) \div 2

\* get_median_and_mad_expr over the rows S: the median of the defined
\* values and 1.4826 times the median of their distances to it
get_median_and_mad_expr(vals, S, is_int) ==
    LET D == { s \in S : vals[s].def }
        x == [s \in D |-> 4 * vals[s].v]
        median == Median(x, D, is_int)
        dev == [s \in D |-> Abs(x[s] - median)]
    IN IF D = {}
       THEN [median |-> NAint, mad |-> NAint]
       ELSE [median |-> Some(10000 * median),
             mad |-> Some(14826 * Median(dev, D, is_int))]

\* the statistics of one metric in one stratum
StatsOf_swapped(vals, S, threshold, is_int) ==
    LET x == get_median_and_mad_expr(vals, S, is_int)
    IN [median |-> x.median,
        mad |-> x.mad,
        lower |-> IF x.median.def
                  THEN Some(x.median.v + threshold[1] * x.mad.v) ELSE NAint,
        upper |-> IF x.median.def
                  THEN Some(x.median.v - threshold[2] * x.mad.v) ELSE NAint]
StatsOf(vals, S, threshold, is_int) ==
    LET x == get_median_and_mad_expr(vals, S, is_int)
    IN [median |-> x.median,
        mad |-> x.mad,
        lower |-> IF x.median.def
                  THEN Some(x.median.v - threshold[1] * x.mad.v) ELSE NAint,
        upper |-> IF x.median.def
                  THEN Some(x.median.v + threshold[2] * x.mad.v) ELSE NAint]

\* _metric_threshold: (lower_threshold, upper_threshold) = (4.0, 4.0),
\* updated with metric_threshold
Thresholds(qc_metrics, metric_threshold) ==
    [m \in qc_metrics |->
        IF m \in DOMAIN metric_threshold THEN metric_threshold[m] ELSE <<4, 4>>]

\* the comparison of a value with the bounds of its stratum
Outside_strict(value, stats) ==
    HailOr(HailLt(value, stats.lower), HailGt(value, stats.upper))
Outside(value, stats) ==
    HailOr(HailLe(value, stats.lower), HailGe(value, stats.upper))

InUnits(value) == IF value.def THEN Some(40000 * value.v) ELSE NAint

FailField(metric) == "fail_" \o metric

\* compute_stratified_metrics_filter: vals[s][metric] is the value of the
\* metric, strata[s] the tuple of the strata of row s; without strata the
\* tuple is empty and the statistics are there even for a table of no row
compute_stratified_metrics_filter(vals, qc_metrics, strata, metric_threshold, is_int) ==
    LET threshold == Thresholds(qc_metrics, metric_threshold)
        stats == [k \in { strata[s] : s \in DOMAIN vals }
                        \cup (IF strata = [s \in DOMAIN vals |-> << >>]
                              THEN {<< >>} ELSE {}) |->
                    [m \in qc_metrics |->
                        StatsOf([s \in DOMAIN vals |-> vals[s][m]],
                                { s \in DOMAIN vals : strata[s] = k },
                                threshold[m], is_int)]]
        fail(s, m) == Outside(InUnits(vals[s][m]), stats[strata[s]][m])
    IN [qc_metrics_stats |-> stats,
        rows |-> [s \in DOMAIN vals |->
                    [f \in { FailField(m) : m \in qc_metrics }
                           \cup {"qc_metrics_filters"} |->
                        IF f = "qc_metrics_filters"
                        THEN Some({ m \in qc_metrics : fail(s, m).def /\ fail(s, m).v })
                        ELSE fail(s, CHOOSE m \in qc_metrics : f = FailField(m))]]]

filtering_qc_metrics == {"n_snp", "n_singleton"}

ResidualField(metric) == metric \o "_residual"

\* the metric_threshold argument of the two calls
metric_threshold_raw == [m \in {"n_singleton"} |-> <<4, 8>>]
metric_threshold_residual_unsuffixed == [m \in {"n_singleton"} |-> <<4, 8>>]
metric_threshold_residual == [m \in {"n_singleton_residual"} |-> <<4, 8>>]

\* the strata of compute_stratified_qc: the population of the sample
QcPop_ignored(pops, s) == << >>
QcPop(pops, s) == << Lookup(pops, s, "pop", NAstr) >>

compute_stratified_qc(overwrite) ==
    /\ pc \in {"start", "stratified"}
    /\ \E computed \in {compute_stratified_metrics_filter(
                           [s \in DOMAIN sample_qc_ht |-> sample_qc_ht[s].sample_qc],
                           filtering_qc_metrics,
                           [s \in DOMAIN sample_qc_ht |-> QcPop(pop_ht, s)],
                           metric_threshold_raw, TRUE)} :
       \E ck \in {Checkpoint(store, "stratified_metrics.ht", computed, overwrite)} :
         /\ store' = ck[1]
         /\ stratified_metrics_ht' = ck[2].rows
         /\ qc_metrics_stats' = [t \in DOMAIN qc_metrics_stats \cup {"stratified_metrics"} |->
                                   IF t = "stratified_metrics"
                                   THEN ck[2].qc_metrics_stats
                                   ELSE qc_metrics_stats[t]]
    /\ pc' = "stratified"
    /\ UNCHANGED <<main, batch, sex_ht, hard_filtered_samples_ht, hfvars, relvars, popvars,
                   residuals_ht, metavars>>

\* apply_regressed_filters: residuals_ht is what compute_qc_metrics_residuals
\* gives for the samples with scores; the regression is not computed here
apply_regressed_filters(overwrite) ==
    /\ pc \in {"start", "stratified"}
    /\ \E stratified \in {compute_stratified_metrics_filter(
                             residuals_ht,
                             { ResidualField(m) : m \in filtering_qc_metrics },
                             [s \in DOMAIN residuals_ht |-> << >>],
                             metric_threshold_residual, FALSE)} :
       \E annotated \in {[qc_metrics_stats |-> stratified.qc_metrics_stats,
                          rows |-> [s \in DOMAIN residuals_ht |->
                                      [f \in DOMAIN residuals_ht[s]
                                             \cup DOMAIN stratified.rows[s] |->
                                         IF f \in DOMAIN stratified.rows[s]
                                         THEN stratified.rows[s][f]
                                         ELSE residuals_ht[s][f]]]]} :
       \E ck \in {Checkpoint(store, "regressed_metrics.ht", annotated, overwrite)} :
         /\ store' = ck[1]
         /\ regressed_metrics_ht' = Given(ck[2].rows)
         /\ qc_metrics_stats' = [t \in DOMAIN qc_metrics_stats \cup {"regressed_metrics"} |->
                                   IF t = "regressed_metrics"
                                   THEN ck[2].qc_metrics_stats
                                   ELSE qc_metrics_stats[t]]
    /\ pc' = "stratified"
    /\ UNCHANGED <<main, batch, sex_ht, hard_filtered_samples_ht, hfvars, relatedness_ht,
                   kin_threshold, rank_ht, filtered_samples_rel, mis_g, mis_heap,
                   call, samples_to_drop_ht, popvars, residuals_ht,
                   stratified_metrics_ht, metavars>>

StratCohort == CohortOf(3)
MetricValues == {0, 1, 7}
ResidualValues == {-1, 0, 6}

\* the population tables: each sample has a population, or no row (and
\* then no scores either)
StratPopTables ==
    { [s \in { c \in StratCohort : a[c] # "" } |->
         [training_pop |-> NAstr, pop |-> Some(a[s])]] :
      a \in [StratCohort -> Populations] }

MetricRows(fields, values) == [fields -> { Some(v) : v \in values }]

InitStrat ==
    /\ pc = "start"
    /\ MainIdle
    /\ sex_ht = EmptyTable
    /\ store = [p \in StorePaths |-> NoFile]
    /\ hard_filtered_samples_ht = EmptyTable
    /\ cov_threshold = 0
    /\ sample_df = EmptyTable
    /\ RelIdle
    /\ metadata_ht = EmptyTable
    /\ max_mislabeled_training_samples = 0
    /\ pop_ht \in StratPopTables
    /\ pop_pca_scores_ht = [s \in DOMAIN pop_ht |-> [scores |-> s]]
    /\ n_mislabeled_samples = 0
    /\ rounds = << >>
    /\ rf_fits = EmptyTable
    /\ pop_overwrite = FALSE
    /\ \/ /\ sample_qc_ht \in [StratCohort ->
                                 [sample_qc : MetricRows(filtering_qc_metrics, MetricValues)]]
          /\ residuals_ht = [s \in DOMAIN pop_pca_scores_ht |->
                               [f \in { ResidualField(m) : m \in filtering_qc_metrics } |->
                                  Some(0)]]
       \/ /\ sample_qc_ht = [s \in StratCohort |->
                               [sample_qc |-> [m \in filtering_qc_metrics |-> Some(0)]]]
          /\ residuals_ht \in [DOMAIN pop_pca_scores_ht ->
                                 MetricRows({ ResidualField(m) : m \in filtering_qc_metrics },
                                            ResidualValues)]
    /\ stratified_metrics_ht = EmptyTable
    /\ qc_metrics_stats = EmptyTable
    /\ MetaIdle

NextStrat ==
    \/ \E overwrite \in BOOLEAN : compute_stratified_qc(overwrite)
    \/ \E overwrite \in BOOLEAN : apply_regressed_filters(overwrite)

SpecStrat == InitStrat /\ [][NextStrat]_vars

----------------------------------------------------------------------------
(* Properties of the Stratified Outlier Detector.                          *)

RawDone == "stratified_metrics" \in DOMAIN qc_metrics_stats
ResidualDone == "regressed_metrics" \in DOMAIN qc_metrics_stats

\* the statistics records of the tables computed so far
StatsRecords ==
    { <<t, k, m>> \in (DOMAIN qc_metrics_stats)
                      \X ({<< >>} \cup { <<p>> : p \in {NAstr} \cup { Some(l) : l \in Populations } })
                      \X (filtering_qc_metrics
                          \cup { ResidualField(m) : m \in filtering_qc_metrics }) :
        /\ k \in DOMAIN qc_metrics_stats[t]
        /\ m \in DOMAIN qc_metrics_stats[t][k] }

StatsAt(r) == qc_metrics_stats[r[1]][r[2]][r[3]]

\* C14: in every record of a statistics table, lower is the median minus a
\* multiple of the MAD, upper the median plus a multiple of the MAD, and
\* lower <= median <= upper
C14_BoundsAroundMedian ==
    \A r \in StatsRecords :
       StatsAt(r).median.def =>
          /\ StatsAt(r).mad.v >= 0
          /\ \E lo, hi \in {4, 8} :
                /\ StatsAt(r).lower.v = StatsAt(r).median.v - lo * StatsAt(r).mad.v
                /\ StatsAt(r).upper.v = StatsAt(r).median.v + hi * StatsAt(r).mad.v
          /\ StatsAt(r).lower.v <= StatsAt(r).median.v
          /\ StatsAt(r).median.v <= StatsAt(r).upper.v

\* a population with a positive MAD
C14_Witness ==
    \E r \in StatsRecords :
       /\ r[1] = "stratified_metrics"
       /\ r[2] = <<Some("CEU")>>
       /\ StatsAt(r).mad.v > 0
       /\ StatsAt(r).lower.v < StatsAt(r).median.v

PopOf(s) == Lookup(pop_ht, s, "pop", NAstr)
RawValues(m) == [s \in DOMAIN sample_qc_ht |-> sample_qc_ht[s].sample_qc[m]]
ResidualValuesOf(m) == [s \in DOMAIN residuals_ht |-> residuals_ht[s][m]]
SingletonMetrics == {"n_singleton", "n_singleton_residual"}
Multipliers(m) == IF m \in SingletonMetrics THEN <<4, 8>> ELSE <<4, 4>>

\* C15: the fail flag of a sample with a population is true exactly when
\* its value (raw mode) or residual (residual mode) is strictly below lower
\* or strictly above upper of the statistics over the samples of its own
\* population
C15_FailIffStrictlyOutsideOwnPop ==
    /\ RawDone =>
         \A s \in DOMAIN stratified_metrics_ht : \A m \in filtering_qc_metrics :
            PopOf(s).def =>
               stratified_metrics_ht[s][FailField(m)] =
                  Outside_strict(InUnits(RawValues(m)[s]),
                                 StatsOf(RawValues(m),
                                         { r \in DOMAIN sample_qc_ht : PopOf(r) = PopOf(s) },
                                         Multipliers(m), TRUE))
    /\ ResidualDone =>
         \A s \in DOMAIN regressed_metrics_ht.ht : \A m \in filtering_qc_metrics :
            PopOf(s).def =>
               regressed_metrics_ht.ht[s][FailField(ResidualField(m))] =
                  Outside_strict(InUnits(ResidualValuesOf(ResidualField(m))[s]),
                                 StatsOf(ResidualValuesOf(ResidualField(m)),
                                         { r \in DOMAIN residuals_ht : PopOf(r) = PopOf(s) },
                                         Multipliers(ResidualField(m)), FALSE))

\* residual mode alone: the statistics that decide a flag are those of the
\* own population of the sample, whatever the comparison at the bounds
ResidualFlagsByOwnPop ==
    ResidualDone =>
       \A s \in DOMAIN regressed_metrics_ht.ht : \A m \in filtering_qc_metrics :
          regressed_metrics_ht.ht[s][FailField(ResidualField(m))] =
             Outside(InUnits(ResidualValuesOf(ResidualField(m))[s]),
                     StatsOf(ResidualValuesOf(ResidualField(m)),
                             { r \in DOMAIN residuals_ht : PopOf(r) = PopOf(s) },
                             Multipliers(ResidualField(m)), FALSE))

NotFlagged(row, metrics) ==
    /\ \A m \in metrics : row[FailField(m)] = Some(FALSE)
    /\ row["qc_metrics_filters"] = Some({})

Undefined == { s \in DOMAIN sample_qc_ht : ~PopOf(s).def }

C17_SingletonAsymmetric ==
    \A r \in StatsRecords :
       StatsAt(r).median.def =>
          /\ StatsAt(r).lower.v = StatsAt(r).median.v - 4 * StatsAt(r).mad.v
          /\ StatsAt(r).upper.v =
                StatsAt(r).median.v
                + (IF \/ r[1] = "stratified_metrics" /\ r[3] = "n_singleton"
                      \/ r[1] = "regressed_metrics" /\ r[3] = "n_singleton_residual"
                   THEN 8 ELSE 4) * StatsAt(r).mad.v

\* residual mode with a positive MAD of both metrics
C17_Witness ==
    /\ ResidualDone
    /\ qc_metrics_stats["regressed_metrics"][<< >>]["n_singleton_residual"].mad.v > 0
    /\ qc_metrics_stats["regressed_metrics"][<< >>]["n_snp_residual"].mad.v > 0

----------------------------------------------------------------------------
(* Metadata Aggregator: _generate_metadata.  Of the fields that are only   *)
(* copied from the input tables the rows keep sex_karyotype,               *)
(* chr20_mean_dp, sample_qc and pop.                                       *)

HailUnion(a, b) == IF a.def /\ b.def THEN Some(a.v \cup b.v) ELSE NAset

\* hl.or_else(meta_ht.hard_filters, hl.empty_set(hl.tstr))
HardFiltersOrEmpty_missing(hard_filters) == hard_filters
HardFiltersOrEmpty(hard_filters) == Some(HailOrElse(hard_filters, {}))

\* add_filters_expr: the union of current_filters with the set of the name
\* of every filter whose condition holds
add_filters_expr_none(filters, current_filters) == current_filters
add_filters_expr(filters, current_filters) ==
    LET names == DOMAIN filters
        added == IF \A n \in names : filters[n].def
                 THEN Some({ n \in names : filters[n].v })
                 ELSE NAset
    IN HailUnion(current_filters, added)

\* hl.len(meta_ht.sample_filters) == 0
ReleaseOf_nonempty(sample_filters) == HailGt(HailLen(sample_filters), Some(0))
ReleaseOf(sample_filters) == HailEq(HailLen(sample_filters), Some(0))

\* the elements of a set of strings in their order
SortedNames == <<"ambiguous_sex", "bad_qc_metrics", "chimera", "contamination",
                 "coverage", "insert_size", "low_coverage",
                 "n_singleton_residual", "n_snp_residual", "sex_aneuploidy">>

\* hl.delimit(set): the elements from place i on, joined by commas
RECURSIVE DelimitFrom(_, _)
DelimitFrom(S, i) ==
    IF i > Len(SortedNames)
    THEN ""
    ELSE IF SortedNames[i] \in S
         THEN IF \E j \in (i + 1)..Len(SortedNames) : SortedNames[j] \in S
              THEN SortedNames[i] \o "," \o DelimitFrom(S, i + 1)
              ELSE SortedNames[i]
         ELSE DelimitFrom(S, i + 1)

\* hl.or_missing(hl.len(filters) > 0, hl.delimit(filters))
DelimitOrMissing(filters) ==
    HailOrMissing(HailGt(HailLen(filters), Some(0)),
                  IF filters.def THEN Some(DelimitFrom(filters.v, 1)) ELSE NAstr,
                  NAstr)

\* the row of sample s in the table that _generate_metadata writes
MetaRow(s) ==
    LET hard_filters == HardFiltersOrEmpty(
                           Lookup(hard_filtered_samples_ht, s, "hard_filters", NAset))
        qc_metrics_filters == Lookup(regressed_metrics_ht.ht, s,
                                     "qc_metrics_filters", NAset)
        release_related == HailIsDefined(
                              Some(s \in DOMAIN final_related_samples_to_drop_ht))
        all_samples_related == HailIsDefined(
                                  Some(s \in DOMAIN pca_related_samples_to_drop_ht))
        sample_filters == add_filters_expr(
                             [n \in {"related"} |->
                                 Some(s \in DOMAIN final_related_samples_to_drop_ht)],
                             HailUnion(hard_filters, qc_metrics_filters))
    IN [sex_karyotype |-> sex_ht[s].sex_karyotype,
        chr20_mean_dp |-> sex_ht[s].chr20_mean_dp,
        sample_qc |-> Lookup(sample_qc_ht, s, "bi_allelic_sample_qc", NAint),
        pop |-> Lookup(pop_ht, s, "pop", NAstr),
        pca_scores |-> Lookup(pop_ht, s, "pca_scores", NAstr),
        hard_filters |-> hard_filters,
        qc_metrics_filters |-> qc_metrics_filters,
        release_related |-> Some(s \in DOMAIN final_related_samples_to_drop_ht),
        all_samples_related |-> Some(s \in DOMAIN pca_related_samples_to_drop_ht),
        sample_filters |-> sample_filters,
        high_quality |-> HailAnd(HailEq(HailLen(hard_filters), Some(0)),
                                 HailEq(HailLen(qc_metrics_filters), Some(0))),
        release |-> ReleaseOf(sample_filters)]

\* the table as it is exported and returned when the TSV file is written
\* (the scores have one component; the field PC1 takes the place of
\* pca_scores)
Transmuted(ht) ==
    [s \in DOMAIN ht |->
        [f \in (DOMAIN ht[s] \ {"pca_scores"}) \cup {"PC1"} |->
            CASE f = "PC1" -> ht[s].pca_scores
              [] f = "hard_filters" -> DelimitOrMissing(ht[s].hard_filters)
              [] f = "qc_metrics_filters" -> DelimitOrMissing(ht[s].qc_metrics_filters)
              [] OTHER -> ht[s][f]]]

_generate_metadata(overwrite) ==
    /\ pc \in {"start", "meta_generated"}
    /\ \E written \in {IF ~overwrite /\ store["meta.ht"].exists
                       THEN store["meta.ht"].ht
                       ELSE [s \in DOMAIN sex_ht |-> MetaRow(s)]} :
         IF overwrite \/ ~store["meta.tsv"].exists
         THEN /\ meta_ht' = Transmuted(written)
              /\ store' = [store EXCEPT !["meta.ht"] = File(written),
                                        !["meta.tsv"] = File(Transmuted(written))]
         ELSE /\ meta_ht' = written
              /\ store' = [store EXCEPT !["meta.ht"] = File(written)]
    /\ pc' = "meta_generated"
    /\ UNCHANGED <<main, batch, sex_ht, hard_filtered_samples_ht, hfvars, relvars, popvars,
                   stratvars, pca_related_samples_to_drop_ht,
                   final_related_samples_to_drop_ht>>

\* a run whose TSV file was lost: the table is there, the export is redone
meta_tsv_removed ==
    /\ pc = "meta_generated"
    /\ store["meta.tsv"].exists
    /\ store' = [store EXCEPT !["meta.tsv"] = NoFile]
    /\ UNCHANGED <<main, batch, pc, sex_ht, hard_filtered_samples_ht, hfvars, relvars, popvars,
                   stratvars, metavars>>

MetaCohort == CohortOf(2)
MetaHardFilters == {{"low_coverage"}, {"contamination", "low_coverage"}}
MetaQcFilters == {{}, {"n_snp_residual"}, {"n_singleton_residual", "n_snp_residual"}}

\* every sample of the cohort has a row in sex_ht, sample_qc_ht, pop_ht and
\* regressed_metrics_ht; the hard-filter table and the tables of related
\* samples hold the samples that failed or are dropped
InitMeta ==
    /\ pc = "start"
    /\ MainIdle
    /\ store = [p \in StorePaths |-> NoFile]
    /\ sex_ht = [s \in MetaCohort |->
                   [sex_karyotype |-> Some("XX"), chr20_mean_dp |-> Some(1)]]
    /\ hard_filtered_samples_ht \in
          UNION { [D -> [hard_filters : { Some(f) : f \in MetaHardFilters }]] :
                  D \in SUBSET MetaCohort }
    /\ cov_threshold = 0
    /\ sample_qc_ht = [s \in MetaCohort |-> [bi_allelic_sample_qc |-> Some(0)]]
    /\ sample_df = EmptyTable
    /\ relatedness_ht = EmptyTable
    /\ kin_threshold = 0
    /\ regressed_metrics_ht \in
          { Given(t) : t \in [MetaCohort ->
                                [qc_metrics_filters : { Some(f) : f \in MetaQcFilters }]] }
    /\ rank_ht = EmptyTable
    /\ filtered_samples_rel = {}
    /\ mis_g = EmptyTable
    /\ mis_heap = {}
    /\ call = [label |-> ""]
    /\ samples_to_drop_ht = EmptyTable
    /\ metadata_ht = EmptyTable
    /\ max_mislabeled_training_samples = 0
    /\ pop_pca_scores_ht = [s \in MetaCohort |-> [scores |-> s]]
    /\ pop_ht = [s \in MetaCohort |-> [training_pop |-> NAstr, pop |-> Some("CEU"),
                                       pca_scores |-> Some(s)]]
    /\ n_mislabeled_samples = 0
    /\ rounds = << >>
    /\ rf_fits = EmptyTable
    /\ pop_overwrite = FALSE
    /\ StratIdle
    /\ pca_related_samples_to_drop_ht \in
          { [s \in D |-> [rank |-> NAint]] : D \in SUBSET MetaCohort }
    /\ final_related_samples_to_drop_ht \in
          { [s \in D |-> [rank |-> NAint]] : D \in SUBSET MetaCohort }
    /\ meta_ht = EmptyTable

NextMeta ==
    \/ \E overwrite \in BOOLEAN : _generate_metadata(overwrite)
    \/ meta_tsv_removed

SpecMeta == InitMeta /\ [][NextMeta]_vars

----------------------------------------------------------------------------
(* Properties of the Metadata Aggregator.                                  *)

Written == store["meta.ht"].ht
InHardTable(s) == s \in DOMAIN hard_filtered_samples_ht
InFinalRelated(s) == s \in DOMAIN final_related_samples_to_drop_ht
QcFiltersOf(s) == regressed_metrics_ht.ht[s].qc_metrics_filters.v

C21_HardFiltersDefaulted ==
    store["meta.ht"].exists =>
       \A s \in MetaCohort :
          /\ Written[s].hard_filters.def
          /\ Written[s].hard_filters.v =
                (IF InHardTable(s) THEN hard_filtered_samples_ht[s].hard_filters.v
                                   ELSE {})

\* one sample passed the hard filters, the other one failed two of them
C21_Witness ==
    /\ store["meta.ht"].exists
    /\ \E s, r \in MetaCohort :
         /\ ~InHardTable(s)
         /\ Written[s].hard_filters = Some({})
         /\ InHardTable(r)
         /\ Written[r].hard_filters = Some({"contamination", "low_coverage"})

\* two tables are the same: the same samples, the same fields, the same
\* values
SameTable(a, b) ==
    /\ DOMAIN a = DOMAIN b
    /\ \A s \in DOMAIN a : DOMAIN a[s] = DOMAIN b[s]
    /\ a = b

\* C22: a run of _generate_metadata after an earlier run on the same inputs
\* returns and stores the same table as the run before it, whether or not
\* the TSV file is there
C22_RerunSameTable ==
    [][(pc = "meta_generated" /\ store'["meta.tsv"].exists) =>
          /\ SameTable(meta_ht', meta_ht)
          /\ SameTable(store'["meta.ht"].ht, store["meta.ht"].ht)]_vars

\* the table stored by _generate_metadata is the same in every later run
RerunStoresSameTable ==
    [][(pc = "meta_generated" /\ store'["meta.tsv"].exists) =>
          SameTable(store'["meta.ht"].ht, store["meta.ht"].ht)]_vars

\* a second run of compute_hard_filters returns and stores what the first did
HardFiltersRerunSame ==
    [][pc = "hard_filtered" =>
          hard_filtered_samples_ht' = hard_filtered_samples_ht /\ store' = store]_vars

\* a second run of either mode of the outlier detector returns and stores
\* what the first did
StratifiedRerunSame ==
    [][/\ (RawDone /\ stratified_metrics_ht' # stratified_metrics_ht) => FALSE
       /\ (ResidualDone /\ regressed_metrics_ht' # regressed_metrics_ht) => FALSE
       /\ (RawDone /\ ResidualDone) => store' = store]_vars

----------------------------------------------------------------------------
(* Stages run again in a work bucket that holds the checkpoints of an      *)
(* earlier run, after the caller has changed an input: the kinship         *)
(* threshold of flag_related_samples, the final table of related samples   *)
(* of _generate_metadata.  A run of flag_related_samples may also have     *)
(* been interrupted after its rankings were checkpointed.                  *)

RerunKinThresholds == {1, 2}

\* the caller passes another kin_threshold to the next run, or a
\* hard-filter table in which the first sample has changed sides; no call
\* has been made with these inputs
rel_inputs_changed ==
    /\ pc \in {"start", "flagged"}
    /\ DOMAIN relatedness_ht # {}
    /\ \E path \in StorePaths : store[path].exists
    /\ \/ /\ kin_threshold' \in RerunKinThresholds \ {kin_threshold}
          /\ UNCHANGED hard_filtered_samples_ht
       \/ /\ \E D \in {DOMAIN hard_filtered_samples_ht \ {"s1"},
                        DOMAIN hard_filtered_samples_ht \cup {"s1"}}
                          \ {DOMAIN hard_filtered_samples_ht} :
               hard_filtered_samples_ht' =
                  [s \in D |-> [hard_filters |-> Some({"low_coverage"})]]
          /\ UNCHANGED kin_threshold
    /\ call' = [label |-> ""]
    /\ UNCHANGED <<main, batch, pc, sex_ht, store, hfvars,
                   relatedness_ht, regressed_metrics_ht, rank_ht,
                   filtered_samples_rel, mis_g, mis_heap, samples_to_drop_ht,
                   popvars, stratvars, metavars>>

\* the job is stopped between the checkpoint of the rankings and the write
\* of the table of samples to drop
flag_related_samples_interrupted ==
    /\ pc = "mis"
    /\ pc' = "start"
    /\ UNCHANGED <<main, batch, sex_ht, store, hard_filtered_samples_ht, hfvars, relvars,
                   popvars, stratvars, metavars>>

\* the caller passes another final table of related samples to the next
\* run: an empty one, or one with the first sample; no table has been
\* returned for these inputs
meta_inputs_changed ==
    /\ pc = "meta_generated"
    /\ DOMAIN pop_ht # {}
    /\ final_related_samples_to_drop_ht' \in
          { [s \in D |-> [rank |-> NAint]] : D \in {{}, {"s1"}} }
             \ {final_related_samples_to_drop_ht}
    /\ meta_ht' = EmptyTable
    /\ UNCHANGED <<main, batch, pc, sex_ht, store, hard_filtered_samples_ht, hfvars, relvars,
                   popvars, stratvars, pca_related_samples_to_drop_ht>>

InitRerunRel ==
    /\ pc = "start"
    /\ MainIdle
    /\ cov_threshold = 0
    /\ sample_qc_ht = EmptyTable
    /\ sample_df = EmptyTable
    /\ store = [p \in StorePaths |-> NoFile]
    /\ sex_ht = [s \in CohortOf(3) |->
                   [sex_karyotype |-> Some("XX"),
                    chr20_mean_dp |-> Some(IF s = "s1" THEN 2 ELSE 1)]]
    /\ hard_filtered_samples_ht \in HardFilterTables(DOMAIN sex_ht)
    /\ relatedness_ht \in RelatednessTables(CohortOf(2))
    /\ kin_threshold \in RerunKinThresholds
    /\ regressed_metrics_ht \in
          {None} \cup { Given(t) : t \in RegressedTables(DOMAIN sex_ht) }
    /\ rank_ht = EmptyTable
    /\ filtered_samples_rel = {}
    /\ mis_g = EmptyTable
    /\ mis_heap = {}
    /\ call = [label |-> ""]
    /\ samples_to_drop_ht = EmptyTable
    /\ PopIdle
    /\ StratIdle
    /\ MetaIdle

\* the inputs of _generate_metadata, with no sample dropped before the PCA
\* and none failing a stratified metric
InitRerunMeta ==
    /\ InitMeta
    /\ pca_related_samples_to_drop_ht = EmptyTable
    /\ \A s \in MetaCohort : regressed_metrics_ht.ht[s].qc_metrics_filters = Some({})

InitRerun == InitRerunRel \/ InitRerunMeta

NextRerun ==
    \/ NextRel
    \/ rel_inputs_changed
    \/ flag_related_samples_interrupted
    \/ NextMeta
    \/ meta_inputs_changed

SpecRerun == InitRerun /\ [][NextRerun]_vars

----------------------------------------------------------------------------
(* Properties of the stages run again.                                     *)

\* the table of samples to drop that the edges, the threshold and a rank
\* table determine
DropTableFor(ranks) ==
    LET filtered_samples == { s \in DOMAIN ranks : ranks[s].filtered }
        related == RelatedPairs(relatedness_ht, kin_threshold)
        filtered_rel == FilteredSamplesRel(related, filtered_samples)
        g == mkGraph(PairsWithoutFiltered(related, filtered_rel))
        removed == DOMAIN g \ MisRun(g, DOMAIN g, ranks)
    IN [s \in removed \cup filtered_rel |->
           [rank |-> IF s \in removed THEN Some(ranks[s].rank) ELSE NAint]]

\* the rank tables that the inputs of this run give
CurrentRankings ==
    _compute_sample_rankings(hard_filtered_samples_ht, sex_ht,
                             regressed_metrics_ht.given, regressed_metrics_ht)

\* the metadata table that the inputs of this run give
CurrentMeta == [s \in DOMAIN sex_ht |-> MetaRow(s)]

\* the rows have the fields of the exported table
IsExported(t) == \A s \in DOMAIN t : "PC1" \in DOMAIN t[s]

\* the table t, as it is or as it is exported
StoredOrExported(returned, t) ==
    SameTable(returned, t) \/ SameTable(returned, Transmuted(t))

\* a call with the current inputs has returned
ResolverReturned == pc = "flagged" /\ call.label # ""
AggregatorReturned == pc = "meta_generated" /\ DOMAIN meta_ht # {}

\* C23: the table a stage has returned is one that its current inputs
\* determine, whatever an earlier run has left in the work bucket
C23_ReturnFromCurrentInputs ==
    /\ ResolverReturned =>
          \E r \in CurrentRankings : samples_to_drop_ht = DropTableFor(r)
    /\ AggregatorReturned => StoredOrExported(meta_ht, CurrentMeta)

\* C23 amended: a run with overwrite on, or in a work bucket without a
\* checkpoint of the stage, returns a table computed from its current
\* inputs; a run with overwrite off returns the table of samples to drop or
\* the metadata table that is stored, and ranks the samples by the stored
\* rankings, whenever the work bucket holds them
C23_CurrentInputsUnlessCheckpointReused ==
    [][/\ \A o \in BOOLEAN :
            (/\ pc \in {"start", "flagged"} /\ pc' \in {"mis", "flagged"}
             /\ call'.label # ""
             /\ flag_related_samples(o)) =>
               IF ~o /\ store[DropPath(Label(regressed_metrics_ht))].exists
               THEN /\ pc' = "flagged"
                    /\ samples_to_drop_ht' =
                          store[DropPath(Label(regressed_metrics_ht))].ht
               ELSE /\ pc' = "mis"
                    /\ IF ~o /\ store[RankPath(Label(regressed_metrics_ht))].exists
                       THEN rank_ht' = store[RankPath(Label(regressed_metrics_ht))].ht
                       ELSE rank_ht' \in CurrentRankings
       /\ (pc = "mis" /\ pc' = "flagged") =>
             /\ samples_to_drop_ht' = DropTableFor(rank_ht)
             /\ store'[DropPath(call.label)].ht = samples_to_drop_ht'
       /\ \A o \in BOOLEAN :
            (/\ pc' = "meta_generated"
             /\ DOMAIN meta_ht' # {}
             /\ IsExported(meta_ht') = (o \/ ~store["meta.tsv"].exists)
             /\ _generate_metadata(o)) =>
               IF ~o /\ store["meta.ht"].exists
               THEN /\ StoredOrExported(meta_ht', store["meta.ht"].ht)
                    /\ store'["meta.ht"] = store["meta.ht"]
               ELSE /\ StoredOrExported(meta_ht', CurrentMeta)
                    /\ SameTable(store'["meta.ht"].ht, CurrentMeta)]_vars

\* a stage has returned a stored table that its current inputs do not give
C23_Witness ==
    \/ /\ ResolverReturned
       /\ store[DropPath(call.label)].exists
       /\ samples_to_drop_ht = store[DropPath(call.label)].ht
       /\ \A r \in CurrentRankings : samples_to_drop_ht # DropTableFor(r)
    \/ /\ AggregatorReturned
       /\ SameTable(meta_ht, store["meta.ht"].ht)
       /\ ~SameTable(store["meta.ht"].ht, CurrentMeta)

----------------------------------------------------------------------------
(* main of sample_qc.py: the stages in the order of its statements, each   *)
(* called with the tables the statements before it have returned.  The     *)
(* cohort is Samples.  The kinship of the pair (pc_relate) and the         *)
(* residuals of the regression on the scores are inputs of the run.        *)

default_max_mislabeled_training_samples == 50

\* the stage is called when main is at it
main_compute_hard_filters ==
    /\ main.pc = "hard_filters" /\ pc = "start"
    /\ compute_hard_filters(main.overwrite)

main_flag_related_samples ==
    /\ main.pc \in {"intermediate", "final"} /\ pc = "start"
    /\ flag_related_samples(main.overwrite)

main_assign_pops ==
    /\ main.pc = "pop" /\ pc = "start"
    /\ assign_pops(main.overwrite)

main_apply_regressed_filters ==
    /\ main.pc = "outlier" /\ pc = "start"
    /\ apply_regressed_filters(main.overwrite)

main_generate_metadata ==
    /\ main.pc = "meta" /\ pc = "start"
    /\ _generate_metadata(main.overwrite)

\* the call of a stage returns to main, which goes on to the next statement
StageReturns(stage, at, next) ==
    /\ main.pc = stage /\ pc = at
    /\ pc' = "start"
    /\ main' = [main EXCEPT !.pc = next, !.done = Append(@, stage)]
    /\ UNCHANGED <<batch, sex_ht, store, hard_filtered_samples_ht, hfvars,
                   relvars, popvars, stratvars>>

main_hard_filters_return ==
    /\ StageReturns("hard_filters", "hard_filtered", "intermediate")
    /\ UNCHANGED metavars

\* pca_related_samples_to_drop_ht = flag_related_samples(...,
\* regressed_metrics_ht=None, ...)
main_intermediate_return ==
    /\ StageReturns("intermediate", "flagged", "pca")
    /\ pca_related_samples_to_drop_ht' = samples_to_drop_ht
    /\ UNCHANGED <<final_related_samples_to_drop_ht, meta_ht>>

\* run_pca_ancestry_analysis: every sample of the cohort gets scores, the
\* related ones by projection
main_run_pca_ancestry_analysis ==
    /\ main.pc = "pca" /\ pc = "start"
    /\ \E scores_ht \in {IF ~main.overwrite /\ store["pop_pca_scores.ht"].exists
                         THEN store["pop_pca_scores.ht"].ht
                         ELSE [s \in DOMAIN sex_ht |-> [scores |-> s]]} :
         /\ pop_pca_scores_ht' = scores_ht
         /\ store' = [store EXCEPT !["pop_pca_scores.ht"] = File(scores_ht)]
    /\ main' = [main EXCEPT !.pc = "pop", !.done = Append(@, "pca")]
    /\ UNCHANGED <<batch, pc, sex_ht, hard_filtered_samples_ht, hfvars, relvars,
                   metadata_ht, max_mislabeled_training_samples, pop_ht,
                   n_mislabeled_samples, rounds, rf_fits, pop_overwrite,
                   stratvars, metavars>>

main_pop_return ==
    /\ StageReturns("pop", "pop_assigned", "outlier")
    /\ UNCHANGED metavars

main_outlier_return ==
    /\ StageReturns("outlier", "stratified", "final")
    /\ UNCHANGED metavars

\* final_related_samples_to_drop_ht = flag_related_samples(...,
\* regressed_metrics_ht, ...)
main_final_return ==
    /\ StageReturns("final", "flagged", "meta")
    /\ final_related_samples_to_drop_ht' = samples_to_drop_ht
    /\ UNCHANGED <<pca_related_samples_to_drop_ht, meta_ht>>

main_meta_return ==
    /\ StageReturns("meta", "meta_generated", "done")
    /\ UNCHANGED metavars

MainResiduals == {0, 1}

\* two samples of the same known population, no Picard file, any coverage
\* at or just under the threshold, any kinship, any residuals
InitMain ==
    /\ pc = "start"
    /\ main \in [pc : {"hard_filters"}, overwrite : BOOLEAN, done : {<< >>}]
    /\ batch = NoBatch
    /\ cov_threshold \in CovThresholds
    /\ sex_ht \in [Samples -> [sex_karyotype : {Some("XX")},
                               chr20_mean_dp : {Some(17), Some(18)}]]
    /\ sample_qc_ht = [s \in Samples |->
                         [n_snp |-> Some(SnpLower),
                          n_singleton |-> Some(SingletonUpper),
                          r_het_hom_var |-> Some(HetHomUpper),
                          bi_allelic_sample_qc |-> Some(0)]]
    /\ sample_df = [s \in Samples |->
                      [contamination |-> NoPath,
                       alignment_summary_metrics |-> NoPath,
                       wgs_metrics |-> NoPath,
                       insert_size_metrics |-> NoPath]]
    /\ store = [p \in StorePaths |-> NoFile]
    /\ hard_filtered_samples_ht = EmptyTable
    /\ relatedness_ht \in { [p \in {<<"A", "B">>} |-> [kin |-> k]] : k \in KinValues }
    /\ kin_threshold \in KinThresholds
    /\ regressed_metrics_ht = None
    /\ rank_ht = EmptyTable
    /\ filtered_samples_rel = {}
    /\ mis_g = EmptyTable
    /\ mis_heap = {}
    /\ call = [label |-> ""]
    /\ samples_to_drop_ht = EmptyTable
    /\ metadata_ht = [s \in Samples |-> [population |-> Some("CEU")]]
    /\ max_mislabeled_training_samples = default_max_mislabeled_training_samples
    /\ pop_pca_scores_ht = EmptyTable
    /\ pop_ht = EmptyTable
    /\ n_mislabeled_samples = 0
    /\ rounds = << >>
    /\ rf_fits = EmptyTable
    /\ pop_overwrite = FALSE
    /\ residuals_ht \in
          { [s \in Samples |->
               [f \in { ResidualField(m) : m \in filtering_qc_metrics } |-> Some(r[s])]] :
            r \in [Samples -> MainResiduals] }
    /\ stratified_metrics_ht = EmptyTable
    /\ qc_metrics_stats = EmptyTable
    /\ MetaIdle

\* (with two samples the loop of assign_pops never turns: no count of
\* mislabeled samples exceeds the default of 50)
NextMain ==
    \/ main_compute_hard_filters
    \/ main_hard_filters_return
    \/ main_flag_related_samples
    \/ mis_step
    \/ flag_related_samples_return
    \/ main_intermediate_return
    \/ main_run_pca_ancestry_analysis
    \/ main_assign_pops
    \/ assign_pops_return
    \/ main_pop_return
    \/ main_apply_regressed_filters
    \/ main_outlier_return
    \/ main_final_return
    \/ main_generate_metadata
    \/ main_meta_return

SpecMain == InitMain /\ [][NextMain]_vars

----------------------------------------------------------------------------
(* Properties of main.                                                     *)

StageOrder == <<"hard_filters", "intermediate", "pca", "pop", "outlier", "final",
                "meta">>

\* the stage that is running, once its call has started
Running(stage) == main.pc = stage /\ pc # "start"

HardFilterStatus(s) ==
    /\ s \in DOMAIN hard_filtered_samples_ht
    /\ hard_filtered_samples_ht[s].hard_filters.v # {}

OutlierStatus(s) ==
    /\ regressed_metrics_ht.given
    /\ s \in DOMAIN regressed_metrics_ht.ht
    /\ regressed_metrics_ht.ht[s].qc_metrics_filters.v # {}

StoredDropSet(label) == DOMAIN store[DropPath(label)].ht

\* C24: the stages complete in the order of StageOrder; a stage that runs
\* has the tables it consumes; the intermediate resolution ranks a sample as
\* filtered by its hard filters only, the final one by its hard filters or
\* its outlier flags; all_samples_related is membership in the intermediate
\* table of samples to drop, release_related in the final one
C24_StagesInOrder ==
    /\ main.done = SubSeq(StageOrder, 1, Len(main.done))
    /\ main.pc # "done" => main.pc = StageOrder[Len(main.done) + 1]
    /\ Running("intermediate") =>
          /\ store["hard_filters.ht"].exists
          /\ ~regressed_metrics_ht.given
          /\ pc \in {"mis", "flagged"} =>
                \A s \in Samples : rank_ht[s].filtered = HardFilterStatus(s)
    /\ main.pc = "pop" => DOMAIN pop_pca_scores_ht = Samples
    /\ Running("pop") => store["intermediate_related_samples_to_drop.ht"].exists
    /\ Running("outlier") => store["pop.ht"].exists
    /\ Running("final") =>
          /\ store["regressed_metrics.ht"].exists
          /\ regressed_metrics_ht.given
          /\ pc \in {"mis", "flagged"} =>
                \A s \in Samples :
                   rank_ht[s].filtered = (HardFilterStatus(s) \/ OutlierStatus(s))
    /\ Running("meta") =>
          /\ \A path \in {"hard_filters.ht", "pop.ht", "regressed_metrics.ht",
                          "intermediate_related_samples_to_drop.ht",
                          "final_related_samples_to_drop.ht"} : store[path].exists
          /\ \A s \in Samples :
                /\ Written[s].all_samples_related =
                      Some(s \in StoredDropSet("intermediate"))
                /\ Written[s].release_related = Some(s \in StoredDropSet("final"))

\* a run that has come to its end, in which a sample passed the
\* intermediate resolution and is dropped by the final one for its outlier
\* flags
C24_Witness ==
    /\ main.pc = "done"
    /\ main.done = StageOrder
    /\ \E s \in Samples :
         /\ ~HardFilterStatus(s) /\ OutlierStatus(s)
         /\ Written[s].all_samples_related = Some(FALSE)
         /\ Written[s].release_related = Some(TRUE)

----------------------------------------------------------------------------
(* flag_related_samples on a relatedness table that nothing has validated:
   the table is keyed by the two fields i and j, so that it can hold a row of
   a sample with itself and the rows (i, j) and (j, i) of one pair.         *)

EdgeKeys == { p \in Pairs : p[1] \in CohortOf(2) /\ p[2] \in CohortOf(2) }
                \cup {<<"s2", "s3">>}

EdgeTables ==
    UNION { { [p \in K |-> [kin |-> k[p]]] : k \in [K -> KinValues] } :
              K \in SUBSET EdgeKeys }

InitEdges ==
    /\ pc = "start"
    /\ MainIdle
    /\ cov_threshold = 0
    /\ sample_qc_ht = EmptyTable
    /\ sample_df = EmptyTable
    /\ store = [p \in StorePaths |-> NoFile]
    /\ sex_ht = [s \in CohortOf(3) |->
                    [sex_karyotype |-> Some("XX"),
                     chr20_mean_dp |-> Some(IF s = "s1" THEN 2 ELSE 1)]]
    /\ hard_filtered_samples_ht \in HardFilterTables({"s1"})
    /\ relatedness_ht \in EdgeTables
    /\ kin_threshold \in KinThresholds
    /\ regressed_metrics_ht = None
    /\ rank_ht = EmptyTable
    /\ filtered_samples_rel = {}
    /\ mis_g = EmptyTable
    /\ mis_heap = {}
    /\ call = [label |-> ""]
    /\ samples_to_drop_ht = EmptyTable
    /\ PopIdle
    /\ StratIdle
    /\ MetaIdle

SpecEdges == InitEdges /\ [][NextRel]_vars

SelfEdges(rel) == { p \in DOMAIN rel : p[1] = p[2] }

\* C25: the resolution of a relatedness table with a row of a sample with
\* itself fails before a sample is dropped: no vertex is taken off the
\* graph and no table of samples to drop is returned or stored
C25_SelfEdgeIsFatal ==
    SelfEdges(relatedness_ht) # {} =>
        /\ pc \in {"start", "mis"}
        /\ mis_heap = DOMAIN mis_g
        /\ \A label \in {"intermediate", "final"} : ~store[DropPath(label)].exists

----------------------------------------------------------------------------
(* The loop of maximal_independent_set runs to its end.                    *)

\* the loop is not held up: a turn that can be taken is taken, and so is
\* the return once no vertex has a neighbour
SpecRelFair ==
    SpecRel /\ WF_vars(mis_step) /\ WF_vars(flag_related_samples_return)

Removed == DOMAIN mis_g \ mis_heap

\* the edges of the graph between two vertices still in the heap
EdgesAmong(g, heap) == { <<v, w>> \in heap \X heap : v \in DOMAIN g /\ w \in g[v] }

\* C26: the loop of removals ends; a turn takes one vertex off the heap, a
\* vertex that has a neighbour still in the heap, and puts none back, so that
\* no vertex is removed twice and there are no more turns than vertices; when
\* the resolver has returned no related pair has both samples retained
C26_LoopTerminates ==
    /\ (pc = "mis") ~> (pc = "flagged")
    /\ [][(pc = "mis" /\ pc' = "mis") =>
            /\ mis_heap' \subseteq mis_heap
            /\ \E v \in mis_heap :
                 /\ mis_heap' = mis_heap \ {v}
                 /\ \E w \in mis_heap \ {v} : <<v, w>> \in EdgesAmong(mis_g, mis_heap)
                 /\ EdgesAmong(mis_g', mis_heap') =
                       { e \in EdgesAmong(mis_g, mis_heap) : e[1] # v /\ e[2] # v }]_vars
    /\ [](pc = "mis" => Cardinality(Removed) <= Cardinality(DOMAIN sex_ht))
    /\ []((pc = "flagged" /\ mis_heap # {}) =>
            /\ EdgesAmong(mis_g, mis_heap) = {}
            /\ \A p \in RelatedPairs(relatedness_ht, kin_threshold) :
                 p[1] \in DOMAIN samples_to_drop_ht \/ p[2] \in DOMAIN samples_to_drop_ht)

\* the loop has ended after two removals
C26_Witness ==
    /\ pc = "flagged"
    /\ Cardinality(Removed) = 2
    /\ Removed \subseteq DOMAIN samples_to_drop_ht

----------------------------------------------------------------------------
(* The training labels in the loop of assign_pops.                         *)

\* the training label of sample s in round i of the call
TrainingLabel(i, s) == rounds[i].pop_ht[s].training_pop

\* the samples that carry a training label in round i
Labelled(i) == { s \in DOMAIN rounds[i].pop_ht : TrainingLabel(i, s).def }

\* C27: in the rounds of one call of assign_pops a sample that carries a
\* training label carried the same label in every earlier round: the set of
\* labelled samples only shrinks, a label that was cleared does not come
\* back, a sample without a label does not gain one and a label that is
\* kept keeps its value
C27_LabelsOnlyCleared ==
    /\ \A i, j \in 1..Len(rounds) :
          (i < j /\ ~rounds[j].raised) =>
              /\ Labelled(j) \subseteq Labelled(i)
              /\ \A s \in Labelled(j) : TrainingLabel(j, s) = TrainingLabel(i, s)
    /\ pc \in {"pop_loop", "pop_raised"} =>
          \A i \in 1..Len(rounds) : \A s \in DOMAIN pop_pca_scores_ht :
              (~rounds[i].raised /\ pop_pca_scores_ht[s].training_pop.def) =>
                  pop_pca_scores_ht[s].training_pop = TrainingLabel(i, s)

\* three rounds: a label cleared after the first, another one after the
\* second, and a label that is kept to the end
C27_Witness ==
    /\ Len(rounds) = 3
    /\ ~rounds[3].raised
    /\ Labelled(3) # {}
    /\ Labelled(3) # Labelled(2)
    /\ Labelled(2) # Labelled(1)
    /\ \E s \in Labelled(1) : ~pop_pca_scores_ht[s].training_pop.def

----------------------------------------------------------------------------
(* The samples counted as mislabeled and the samples whose label is        *)
(* cleared.                                                                *)

\* the prediction for sample s in round i
PredictedPop(i, s) == rounds[i].pop_ht[s].pop

\* no probability of sample s reached min_prob in round i
BelowMinProb(i, s) == PredictedPop(i, s).v = missing_label

\* the samples whose label is cleared by the turn of the loop after round i
Cleared(i) == Labelled(i) \ Labelled(i + 1)

\* the labelled samples of round i whose prediction is another population
Disagreeing(i) ==
    { s \in Labelled(i) : ~BelowMinProb(i, s) /\ PredictedPop(i, s) # TrainingLabel(i, s) }

\* the rounds that were followed by a round that gave a table
Retrained == { i \in 1..(Len(rounds) - 1) : ~rounds[i + 1].raised }

\* the samples cleared after a round are the labelled samples whose `pop`
\* differs from the label, `pop` being missing_label or a population, and
\* they are as many as the round counted
ClearedAreCounted ==
    \A i \in Retrained :
        /\ Cleared(i) = { s \in Labelled(i) : PredictedPop(i, s) # TrainingLabel(i, s) }
        /\ Cardinality(Cleared(i)) = rounds[i].n_mislabeled_samples

\* C28: in a turn of the loop the samples whose label is cleared are the
\* samples counted as mislabeled, which are the labelled samples predicted
\* to be of another population; a labelled sample none of whose
\* probabilities reached min_prob is not counted and keeps its label
C28_ClearedAreDisagreeing ==
    \A i \in Retrained :
        /\ Cleared(i) = Disagreeing(i)
        /\ rounds[i].n_mislabeled_samples = Cardinality(Disagreeing(i))
        /\ \A s \in Labelled(i) : BelowMinProb(i, s) => s \in Labelled(i + 1)

----------------------------------------------------------------------------
(* The two rankings of one run of main: flag_related_samples is called     *)
(* without the regressed table, and later with it.                         *)

\* tables of some samples, each with a set of labels that may be empty
LabelTables(cohort, field, label) ==
    UNION { { [s \in D |-> [f \in {field} |-> Some(IF s \in Q THEN {label} ELSE {})]] :
                Q \in SUBSET D } : D \in SUBSET cohort }

\* main hands the regressed table to its second call of flag_related_samples
regressed_metrics_given ==
    /\ pc = "flagged"
    /\ ~regressed_metrics_ht.given
    /\ \E t \in LabelTables(DOMAIN sex_ht, "qc_metrics_filters", "n_snp_residual") :
         regressed_metrics_ht' = Given(t)
    /\ pc' = "start"
    /\ UNCHANGED <<main, batch, sex_ht, store, hard_filtered_samples_ht, hfvars,
                   relatedness_ht, kin_threshold, rank_ht, filtered_samples_rel,
                   mis_g, mis_heap, call, samples_to_drop_ht, popvars, stratvars,
                   metavars>>

InitRankings ==
    /\ pc = "start"
    /\ MainIdle
    /\ cov_threshold = 0
    /\ sample_qc_ht = EmptyTable
    /\ sample_df = EmptyTable
    /\ store = [p \in StorePaths |-> NoFile]
    /\ sex_ht = [s \in CohortOf(3) |->
                    [sex_karyotype |-> Some("XX"),
                     chr20_mean_dp |-> Some(IF s = "s1" THEN 2 ELSE 1)]]
    /\ hard_filtered_samples_ht \in
          LabelTables(DOMAIN sex_ht, "hard_filters", "low_coverage")
    /\ relatedness_ht \in RelatednessTables(CohortOf(2))
    /\ kin_threshold \in KinThresholds
    /\ regressed_metrics_ht = None
    /\ rank_ht = EmptyTable
    /\ filtered_samples_rel = {}
    /\ mis_g = EmptyTable
    /\ mis_heap = {}
    /\ call = [label |-> ""]
    /\ samples_to_drop_ht = EmptyTable
    /\ PopIdle
    /\ StratIdle
    /\ MetaIdle

NextRankings ==
    \/ \E overwrite \in BOOLEAN : flag_related_samples(overwrite)
    \/ mis_step
    \/ flag_related_samples_return
    \/ regressed_metrics_given

SpecRankings == InitRankings /\ [][NextRankings]_vars

\* the `filtered` field of sample s in the stored ranking of a call
StoredFiltered(label, s) == store[RankPath(label)].ht[s].filtered

BothRanked ==
    store[RankPath("intermediate")].exists /\ store[RankPath("final")].exists

\* C29: the intermediate ranking has a sample filtered exactly when the
\* sample has a row with a non-empty hard_filters; the final ranking has it
\* filtered exactly when it has such a row or a row with a non-empty
\* qc_metrics_filters; so a sample filtered in the intermediate ranking is
\* filtered in the final one, and a sample with a row in neither table is
\* filtered in neither ranking
C29_FilteredMonotone ==
    \A s \in DOMAIN sex_ht :
       /\ store[RankPath("intermediate")].exists =>
             StoredFiltered("intermediate", s) = HardFilterStatus(s)
       /\ store[RankPath("final")].exists =>
             StoredFiltered("final", s) = (HardFilterStatus(s) \/ OutlierStatus(s))
       /\ BothRanked =>
             /\ StoredFiltered("intermediate", s) => StoredFiltered("final", s)
             /\ (s \notin DOMAIN hard_filtered_samples_ht
                   /\ s \notin DOMAIN regressed_metrics_ht.ht) =>
                   ~StoredFiltered("intermediate", s) /\ ~StoredFiltered("final", s)

\* both rankings are stored: a sample filtered in both, a sample filtered in
\* the final one only, a sample with a row in neither table, and a sample
\* with two rows of empty sets
C29_Witness ==
    /\ BothRanked
    /\ \E s \in DOMAIN sex_ht : StoredFiltered("intermediate", s)
                                  /\ StoredFiltered("final", s)
    /\ \E s \in DOMAIN sex_ht : ~StoredFiltered("intermediate", s)
                                  /\ StoredFiltered("final", s)
    /\ \E s \in DOMAIN sex_ht :
          \/ s \notin DOMAIN hard_filtered_samples_ht \cup DOMAIN regressed_metrics_ht.ht
          \/ /\ s \in DOMAIN hard_filtered_samples_ht \cap DOMAIN regressed_metrics_ht.ht
             /\ ~StoredFiltered("final", s)

----------------------------------------------------------------------------
(* main of batch_workflow.py: the jobs it adds to the batch.  A job is     *)
(* known by its place in the batch; a job made by hail_dataproc_job is     *)
(* real, a job made by b.new_job alone is an empty placeholder.            *)

Job(name, real, depends_on) == [name |-> name, real |-> real, depends_on |-> depends_on]

\* b.new_job(name)
new_job(name) == Job(name, FALSE, {})

\* the batch with one more job, which the variable `handle` names
AddJob(bt, handle, job) ==
    [bt EXCEPT !.jobs = Append(@, job), ![handle] = Len(bt.jobs) + 1]

\* utils.file_exists
file_exists(path) == store[path].exists

AllExist(paths) == \A fp \in paths : file_exists(fp)
\* any(utils.file_exists(fp) for fp in paths)
AnyExists(paths) == \E fp \in paths : file_exists(fp)

InfoPaths == {"info.ht", "info-split.ht", "info.vcf"}
SampleQcOutputs == {"hard_filters.ht", "meta.ht"}

\* the samples whose GVCFs are prepared
GvcfSamples == <<"s1", "s2">>

\* the list of samples is read when it is there and overwrite is off;
\* otherwise add_prep_gvcfs_for_combiner_steps adds a job for every sample,
\* an empty one when the subset GVCF of the sample exists, and writes the
\* list
batch_prepare_gvcfs(overwrite) ==
    /\ pc = "start"
    /\ batch = NoBatch
    /\ IF ~overwrite /\ file_exists("combiner/samples.csv")
       THEN UNCHANGED <<batch, store>>
       ELSE \E found \in SUBSET (1..Len(GvcfSamples)) :
              /\ batch' = [batch EXCEPT
                            !.jobs = [n \in 1..Len(GvcfSamples) |->
                                        IF n \in found
                                        THEN new_job("SubsetToNoalt")
                                        ELSE Job("SubsetToNoalt", TRUE, {})],
                            !.subset_gvcf_jobs = 1..Len(GvcfSamples)]
              /\ store' = [store EXCEPT !["combiner/samples.csv"] = File(EmptyTable)]
    /\ pc' = "prepared"
    /\ UNCHANGED <<main, sex_ht, hard_filtered_samples_ht, hfvars, relvars, popvars,
                   stratvars, metavars>>

BatchUnchanged ==
    UNCHANGED <<main, sex_ht, store, hard_filtered_samples_ht, hfvars, relvars,
                popvars, stratvars, metavars>>

batch_combine_gvcfs ==
    /\ pc = "prepared"
    /\ batch' = AddJob(batch, "combiner_job",
                       IF ~file_exists("raw/genomes.mt")
                       THEN Job("Combine GVCFs", TRUE, batch.subset_gvcf_jobs)
                       ELSE new_job("Combine GVCFs"))
    /\ pc' = "combined"
    /\ BatchUnchanged

batch_generate_info ==
    /\ pc = "combined"
    /\ batch' = AddJob(batch, "generate_info_job",
                       IF ~AnyExists(InfoPaths)
                       THEN Job("Sample QC", TRUE, {batch.combiner_job})
                       ELSE new_job("Generate info"))
    /\ pc' = "info"
    /\ BatchUnchanged

batch_sample_qc ==
    /\ pc = "info"
    /\ batch' = AddJob(batch, "sample_qc_job",
                       IF ~AnyExists(SampleQcOutputs)
                       THEN Job("Sample QC", TRUE,
                                {batch.combiner_job, batch.generate_info_job})
                       ELSE new_job("Sample QC"))
    /\ pc' = "sample_qc"
    /\ BatchUnchanged

\* make_rf_jobs and make_vqsr_jobs, each taken as one job, and b.run
batch_run(run_rf, run_vqsr) ==
    /\ pc = "sample_qc"
    /\ LET rf == IF run_rf THEN <<Job("RF", TRUE, {batch.sample_qc_job})>> ELSE << >>
           vqsr == IF run_vqsr THEN <<Job("VQSR", TRUE, {batch.combiner_job})>>
                   ELSE << >>
       IN batch' = [batch EXCEPT !.jobs = @ \o rf \o vqsr]
    /\ pc' = "submitted"
    /\ BatchUnchanged

InitBatch ==
    /\ pc = "start"
    /\ MainIdle
    /\ sex_ht = EmptyTable
    /\ hard_filtered_samples_ht = EmptyTable
    /\ cov_threshold = 0
    /\ sample_qc_ht = EmptyTable
    /\ sample_df = EmptyTable
    /\ \E found \in SUBSET ({"combiner/samples.csv", "raw/genomes.mt"}
                              \cup InfoPaths \cup SampleQcOutputs) :
         store = [p \in StorePaths |-> IF p \in found THEN File(EmptyTable) ELSE NoFile]
    /\ RelIdle
    /\ PopIdle
    /\ StratIdle
    /\ MetaIdle

NextBatch ==
    \/ \E overwrite \in BOOLEAN : batch_prepare_gvcfs(overwrite)
    \/ batch_combine_gvcfs
    \/ batch_generate_info
    \/ batch_sample_qc
    \/ \E run_rf, run_vqsr \in BOOLEAN : batch_run(run_rf, run_vqsr)

SpecBatch == InitBatch /\ [][NextBatch]_vars

SampleQcJob == batch.jobs[batch.sample_qc_job]

\* the Sample QC job is a real one exactly when none of its two outputs
\* exists, and a real one waits for the two jobs before it
SampleQcRealIffNoOutput ==
    batch.sample_qc_job # 0 =>
        /\ SampleQcJob.real <=> ~AnyExists(SampleQcOutputs)
        /\ SampleQcJob.real =>
              SampleQcJob.depends_on = {batch.combiner_job, batch.generate_info_job}

\* C30: the Sample QC job is an empty placeholder only when hard_filters.ht
\* and meta.ht both exist; when one of them is missing the job is a real
\* one, which depends on the Combine GVCFs job and on the job that
\* generates the info table
C30_PlaceholderOnlyWhenBothExist ==
    batch.sample_qc_job # 0 =>
        /\ ~SampleQcJob.real => AllExist(SampleQcOutputs)
        /\ ~AllExist(SampleQcOutputs) =>
              /\ SampleQcJob.real
              /\ SampleQcJob.depends_on =
                    {batch.combiner_job, batch.generate_info_job}
              /\ batch.jobs[batch.combiner_job].name = "Combine GVCFs"

====
